---- MODULE Spec2Model ----
(***************************************************************************)
(* Model of the MalleableWeb content-script rule validator                 *)
(* (src/src/content/rule-validator.ts) together with the page around it:   *)
(* the DOM the selectors are evaluated against, the browser's timers and   *)
(* the MutationObserver record queue; and of the rule store                *)
(* (src/src/shared/storage.ts) with the service worker handlers and the    *)
(* options page that write to it; and of the pure functions of the DOM     *)
(* serializer (src/src/content/dom-serializer.ts) and of the element       *)
(* picker's selector synthesis (src/unnamed/part_001), applied to          *)
(* documents and elements drawn from bounded sets.  A serialized text is   *)
(* modelled by the number of its characters; paths, keywords, class names  *)
(* and selectors are strings.                                              *)
(*                                                                         *)
(* Time is discrete.  One Tick is TickMs milliseconds; a timer holds the   *)
(* milliseconds that remain until it is due and is run at the instant it   *)
(* becomes due, before anything else happens at that instant.              *)
(***************************************************************************)
EXTENDS Integers, Sequences, FiniteSets, TLC

\* ------------------------------------------------------------------------
\* Program constants
\* ------------------------------------------------------------------------
VALIDATION_INTERVAL_MS == 30000
VALIDATION_DEBOUNCE_MS == 1000
\* the literal delay of the initial validation, setTimeout(..., 1000)
INITIAL_VALIDATION_MS == 1000

\* granularity of the clock: two instants per debounce window
TickMs == VALIDATION_DEBOUNCE_MS \div 2

\* ------------------------------------------------------------------------
\* Bounds of the model
\* ------------------------------------------------------------------------
\* rules in one rule-source response
MaxRules == 2
\* saturation of the per-burst callback counter (history only)
BurstCap == 2
\* failure reports are handled for rules that failed fewer times than this
MaxFailures == 4
\* failure reports in flight at one time
MaxInFlight == 1

\* ------------------------------------------------------------------------
\* The page: elements, computed style, selectors
\* ------------------------------------------------------------------------
Elems == {"e1", "e2", "e3"}

\* static attributes of the elements of the page
ElemId(e) == IF e = "e1" THEN "foo" ELSE ""
ElemClass(e) == "ad"

Displays == {"block", "none"}
Visibilities == {"visible", "hidden"}

\* an element that is not in the document carries the default style
Absent == [present |-> FALSE, display |-> "block", visibility |-> "visible"]

ElemStates ==
  {Absent} \cup [present : {TRUE}, display : Displays, visibility : Visibilities]

\* selectors: #name, .name, and one that is not valid CSS
SelFoo == [kind |-> "id", name |-> "foo"]
SelGone == [kind |-> "id", name |-> "gone"]
SelAd == [kind |-> "class", name |-> "ad"]
SelBad == [kind |-> "syntax-error", name |-> "div["]

\* page identity
PageHostname == <<"www", "example", "com">>
PageUrl == "https://www.example.com/watch"

\* hostname.replace(/^www\./, '')
extractDomain(hostname) ==
  IF Len(hostname) > 0 /\ Head(hostname) = "www" THEN Tail(hostname) ELSE hostname

\* document.querySelectorAll throws a SyntaxError on malformed selector text
QueryThrows(selector) == selector.kind \notin {"id", "class"}

\* the elements of the document that a well-formed selector matches
querySelectorAll(d, selector) ==
  {e \in Elems :
     /\ d[e].present
     /\ \/ selector.kind = "id" /\ ElemId(e) = selector.name
        \/ selector.kind = "class" /\ ElemClass(e) = selector.name}

\* ------------------------------------------------------------------------
\* RuleValidator.validateSelector
\* ------------------------------------------------------------------------
Result(ruleId, selector, status, matchCount, hiddenCount) ==
  [ruleId |-> ruleId, selector |-> selector, status |-> status,
   matchCount |-> matchCount, hiddenCount |-> hiddenCount]

\* variant: only display:none counts as hidden
validateSelectorDisplayOnly(d, ruleId, selector) ==
  IF QueryThrows(selector)
  THEN Result(ruleId, selector, "invalid", 0, 0)
  ELSE
    LET elements == querySelectorAll(d, selector)
        matchCount == Cardinality(elements)
        hiddenCount == Cardinality({e \in elements : d[e].display = "none"})
    IN IF matchCount = 0
       THEN Result(ruleId, selector, "invalid", 0, 0)
       ELSE IF hiddenCount = matchCount
       THEN Result(ruleId, selector, "valid", matchCount, hiddenCount)
       ELSE IF hiddenCount > 0
       THEN Result(ruleId, selector, "partial", matchCount, hiddenCount)
       ELSE Result(ruleId, selector, "invalid", matchCount, hiddenCount)

\* variant: without the early return on zero matches
validateSelectorNoZeroCheck(d, ruleId, selector) ==
  IF QueryThrows(selector)
  THEN Result(ruleId, selector, "invalid", 0, 0)
  ELSE
    LET elements == querySelectorAll(d, selector)
        matchCount == Cardinality(elements)
        hiddenCount ==
          Cardinality({e \in elements :
                         d[e].display = "none" \/ d[e].visibility = "hidden"})
    IN IF hiddenCount = matchCount
       THEN Result(ruleId, selector, "valid", matchCount, hiddenCount)
       ELSE IF hiddenCount > 0
       THEN Result(ruleId, selector, "partial", matchCount, hiddenCount)
       ELSE Result(ruleId, selector, "invalid", matchCount, hiddenCount)

\* variant: the catch block lets the selector pass
validateSelectorCatchValid(d, ruleId, selector) ==
  IF QueryThrows(selector)
  THEN Result(ruleId, selector, "valid", 0, 0)
  ELSE
    LET elements == querySelectorAll(d, selector)
        matchCount == Cardinality(elements)
        hiddenCount ==
          Cardinality({e \in elements :
                         d[e].display = "none" \/ d[e].visibility = "hidden"})
    IN IF matchCount = 0
       THEN Result(ruleId, selector, "invalid", 0, 0)
       ELSE IF hiddenCount = matchCount
       THEN Result(ruleId, selector, "valid", matchCount, hiddenCount)
       ELSE IF hiddenCount > 0
       THEN Result(ruleId, selector, "partial", matchCount, hiddenCount)
       ELSE Result(ruleId, selector, "invalid", matchCount, hiddenCount)

validateSelector(d, ruleId, selector) ==
  IF QueryThrows(selector)
  THEN Result(ruleId, selector, "invalid", 0, 0)
  ELSE
    LET elements == querySelectorAll(d, selector)
        matchCount == Cardinality(elements)
        hiddenCount ==
          Cardinality({e \in elements :
                         d[e].display = "none" \/ d[e].visibility = "hidden"})
    IN IF matchCount = 0
       THEN Result(ruleId, selector, "invalid", 0, 0)
       ELSE IF hiddenCount = matchCount
       THEN Result(ruleId, selector, "valid", matchCount, hiddenCount)
       ELSE IF hiddenCount > 0
       THEN Result(ruleId, selector, "partial", matchCount, hiddenCount)
       ELSE Result(ruleId, selector, "invalid", matchCount, hiddenCount)

\* ------------------------------------------------------------------------
\* RuleValidator.validateAll
\* ------------------------------------------------------------------------
\* lastValidation is a map from the key `${ruleId}:${selector}` to a boolean
ValidationKey(ruleId, selector) == <<ruleId, selector>>

MapSet(m, k, v) == [x \in (DOMAIN m) \cup {k} |-> IF x = k THEN v ELSE m[x]]

\* variant: a partially hidden selector counts as working
IsValidOrPartial(result) == result.status \in {"valid", "partial"}

\* const isValid = result.status === 'valid'
IsValid(result) == result.status = "valid"

\* wasValid === true && !isValid: the selector is logged as failed
StoppedWorking(lv, key, isValid) ==
  key \in DOMAIN lv /\ lv[key] = TRUE /\ ~isValid

\* the inner loop over the selectors of one rule, from selector i on;
\* acc collects the results and the selectors logged as failed
RECURSIVE ValidateSelectors(_, _, _, _, _, _, _)
ValidateSelectors(d, ruleId, selectors, i, lv, ruleValid, acc) ==
  IF i > Len(selectors)
  THEN [lastValidation |-> lv, ruleValid |-> ruleValid, acc |-> acc]
  ELSE
    LET result == validateSelector(d, ruleId, selectors[i])
        key == ValidationKey(ruleId, selectors[i])
        isValid == IsValid(result)
    IN ValidateSelectors(d, ruleId, selectors, i + 1,
                         MapSet(lv, key, isValid),
                         ruleValid \/ isValid,
                         [results |-> acc.results \cup {result},
                          logged |-> IF StoppedWorking(lv, key, isValid)
                                     THEN acc.logged \cup {key}
                                     ELSE acc.logged])

\* if (!ruleValid && this.lastValidation.size > 0) failures.push(ruleId)
RuleFails(ruleValid, lv) == ~ruleValid /\ Cardinality(DOMAIN lv) > 0

\* the outer loop over the tracked rules, in insertion order, from rule i on
RECURSIVE ValidateRules(_, _, _, _, _, _, _)
ValidateRules(d, rs, i, lv, failures, validRules, acc) ==
  IF i > Len(rs)
  THEN [lastValidation |-> lv, failures |-> failures,
        validRules |-> validRules, acc |-> acc]
  ELSE
    LET r == ValidateSelectors(d, rs[i].id, rs[i].selectors, 1, lv, FALSE, acc)
    IN ValidateRules(d, rs, i + 1, r.lastValidation,
                     IF RuleFails(r.ruleValid, r.lastValidation)
                     THEN Append(failures, rs[i].id) ELSE failures,
                     IF r.ruleValid THEN validRules \cup {rs[i].id} ELSE validRules,
                     r.acc)

\* [...new Set(failures)]: first occurrences, in order
RECURSIVE Dedup(_)
Dedup(s) ==
  IF s = <<>> THEN <<>>
  ELSE LET rest == Dedup(SubSeq(s, 1, Len(s) - 1))
           x == s[Len(s)]
       IN IF \E j \in 1..Len(rest) : rest[j] = x THEN rest ELSE Append(rest, x)

FailureMessage(failures) ==
  [type |-> "RULE_VALIDATION_FAILURE",
   domain |-> extractDomain(PageHostname),
   failedRuleIds |-> Dedup(failures),
   url |-> PageUrl]

\* variant: one message per failed rule
ReportsPerFailure(failures) ==
  [i \in 1..Len(failures) |-> FailureMessage(<<failures[i]>>)]

\* the messages one pass hands to chrome.runtime.sendMessage
ReportsOf(failures) ==
  IF Len(failures) > 0 THEN <<FailureMessage(failures)>> ELSE <<>>

validateAll(d, rs, lv) ==
  LET r == ValidateRules(d, rs, 1, lv, <<>>, {},
                         [results |-> {}, logged |-> {}])
  IN [lastValidation |-> r.lastValidation,
      failures |-> r.failures,
      validRules |-> r.validRules,
      results |-> r.acc.results,
      logged |-> r.acc.logged,
      msgs |-> ReportsOf(r.failures)]

\* ------------------------------------------------------------------------
\* The rule source (GET_RULES_FOR_DOMAIN)
\* ------------------------------------------------------------------------
\* a rule as handleGenerateCSS first stores it has no previousStatus
\* ("none" stands for the absent field), failureCount 0 and the first CSS
CSSRule(id, enabled, status, selectors) ==
  [id |-> id, enabled |-> enabled, status |-> status, selectors |-> selectors,
   previousStatus |-> "none", failureCount |-> 0, generatedCSS |-> 1,
   chatMessages |-> <<>>]

RuleFoo == CSSRule("rFoo", TRUE, "active", <<SelFoo>>)
RuleAds == CSSRule("rAds", TRUE, "active", <<SelAd, SelGone>>)
RuleEmpty == CSSRule("rEmpty", TRUE, "active", <<>>)
RuleBad == CSSRule("rBad", TRUE, "active", <<SelBad, SelFoo>>)
RuleOff == CSSRule("rOff", FALSE, "disabled", <<SelFoo>>)
\* switched off with the status left alone, and the reverse
RuleMuted == CSSRule("rMuted", FALSE, "active", <<SelFoo>>)
RuleShelved == CSSRule("rShelved", TRUE, "disabled", <<SelFoo>>)

RuleCatalog == {RuleFoo, RuleAds, RuleEmpty, RuleBad}

\* the rule lists a domain can hold: distinct rules, at most MaxRules
RuleLists ==
  {rs \in UNION {[1..n -> RuleCatalog] : n \in 0..MaxRules} :
     \A i, j \in 1..Len(rs) : i # j => rs[i].id # rs[j].id}

\* sendMessage rejected, or resolved without a value
NoResponse == [rules |-> <<>>, ok |-> FALSE]

\* handleMessage GET_RULES_FOR_DOMAIN: { rules: getRulesForDomain(domain) }
Responses(rules) == {[rules |-> rules, ok |-> TRUE], NoResponse}

\* ------------------------------------------------------------------------
\* Storage (shared/storage.ts): the schema kept in chrome.storage.local
\* ------------------------------------------------------------------------
DEFAULT_SETTINGS == [notifyOnFailure |-> TRUE]
WARNING_THRESHOLD == 1
BROKEN_THRESHOLD == 3

PageDomain == extractDomain(PageHostname)
OtherDomain == <<"other", "org">>
Domains == {PageDomain, OtherDomain}

NoDomains == [d \in {} |-> <<>>]

\* getSchema() on an empty store
EmptySchema == [domains |-> NoDomains, settings |-> DEFAULT_SETTINGS]

\* a store whose only domain is the page's, holding the given rules
SchemaOf(rules) ==
  [domains |-> IF Len(rules) = 0 THEN NoDomains
               ELSE [d \in {PageDomain} |-> rules],
   settings |-> DEFAULT_SETTINGS]

\* schema.domains[domain]?.rules || []
getRulesForDomain(schema, domain) ==
  IF domain \in DOMAIN schema.domains THEN schema.domains[domain] ELSE <<>>

\* rules.findIndex(r => r.id === ruleId), counted from 1; 0 for -1
IndexOf(rules, ruleId) ==
  IF \E i \in 1..Len(rules) : rules[i].id = ruleId
  THEN CHOOSE i \in 1..Len(rules) :
         /\ rules[i].id = ruleId
         /\ \A j \in 1..(i - 1) : rules[j].id # ruleId
  ELSE 0

\* undefined, where a rule was looked for
NoRule == [id |-> "none"]

getRule(schema, domain, ruleId) ==
  LET rules == getRulesForDomain(schema, domain)
      i == IndexOf(rules, ruleId)
  IN IF i = 0 THEN NoRule ELSE rules[i]

WithDomain(domains, domain, rules) ==
  [d \in DOMAIN domains \cup {domain} |->
     IF d = domain THEN rules ELSE domains[d]]

WithoutDomain(domains, domain) ==
  [d \in DOMAIN domains \ {domain} |-> domains[d]]

\* { ...rule, ...updates }
Merge(rule, updates) ==
  [f \in DOMAIN rule \cup DOMAIN updates |->
     IF f \in DOMAIN updates THEN updates[f] ELSE rule[f]]

saveRule(schema, domain, rule) ==
  LET rules == getRulesForDomain(schema, domain)
      i == IndexOf(rules, rule.id)
      saved == IF i > 0 THEN [rules EXCEPT ![i] = rule] ELSE Append(rules, rule)
  IN [schema EXCEPT !.domains = WithDomain(@, domain, saved)]

\* variant: the domain entry is kept when its last rule goes
deleteRuleKeepsDomain(schema, domain, ruleId) ==
  IF domain \notin DOMAIN schema.domains THEN schema
  ELSE [schema EXCEPT !.domains =
          WithDomain(@, domain,
                     SelectSeq(schema.domains[domain], LAMBDA r : r.id # ruleId))]

deleteRule(schema, domain, ruleId) ==
  IF domain \notin DOMAIN schema.domains THEN schema
  ELSE LET kept == SelectSeq(schema.domains[domain], LAMBDA r : r.id # ruleId)
       IN [schema EXCEPT !.domains =
             IF Len(kept) = 0 THEN WithoutDomain(@, domain)
             ELSE WithDomain(@, domain, kept)]

updateRule(schema, domain, ruleId, updates) ==
  IF domain \notin DOMAIN schema.domains THEN schema
  ELSE LET i == IndexOf(schema.domains[domain], ruleId)
       IN IF i = 0 THEN schema
          ELSE [schema EXCEPT !.domains =
                  WithDomain(@, domain,
                             [schema.domains[domain] EXCEPT ![i] = Merge(@, updates)])]

\* ------------------------------------------------------------------------
\* Service worker: handleValidationFailure
\* ------------------------------------------------------------------------
\* variant: three failures are not yet enough
StatusAfterFailureLate(rule, failureCount) ==
  IF failureCount > BROKEN_THRESHOLD THEN "broken"
  ELSE IF failureCount >= WARNING_THRESHOLD THEN "warning"
  ELSE rule.status

StatusAfterFailure(rule, failureCount) ==
  IF failureCount >= BROKEN_THRESHOLD THEN "broken"
  ELSE IF failureCount >= WARNING_THRESHOLD THEN "warning"
  ELSE rule.status

\* variant: every report of a broken rule notifies
ShouldNotifyEveryTime(settings, status, rule) ==
  settings.notifyOnFailure /\ status = "broken"

ShouldNotify(settings, status, rule) ==
  settings.notifyOnFailure /\ status = "broken" /\ rule.status # "broken"

\* variant: the stored count is written back as it was
FailureUpdatesNoCount(rule) ==
  [failureCount |-> rule.failureCount,
   status |-> StatusAfterFailure(rule, rule.failureCount + 1)]

\* the updates one listed rule receives
FailureUpdates(rule) ==
  LET failureCount == rule.failureCount + 1
  IN [failureCount |-> failureCount,
      status |-> StatusAfterFailure(rule, failureCount)]

\* the loop over failedRuleIds, from position i on; notified collects the
\* rule ids chrome.notifications.create was called for
RECURSIVE HandleFailedIds(_, _, _, _, _, _)
HandleFailedIds(schema, settings, domain, failedRuleIds, i, notified) ==
  IF i > Len(failedRuleIds) THEN [schema |-> schema, notified |-> notified]
  ELSE
    LET ruleId == failedRuleIds[i]
        rule == getRule(schema, domain, ruleId)
    IN IF rule = NoRule
       THEN HandleFailedIds(schema, settings, domain, failedRuleIds, i + 1, notified)
       ELSE
         LET updates == FailureUpdates(rule)
         IN HandleFailedIds(updateRule(schema, domain, ruleId, updates),
                            settings, domain, failedRuleIds, i + 1,
                            IF ShouldNotify(settings, updates.status, rule)
                            THEN Append(notified, ruleId) ELSE notified)

handleValidationFailure(schema, domain, failedRuleIds) ==
  HandleFailedIds(schema, schema.settings, domain, failedRuleIds, 1, <<>>)

\* ------------------------------------------------------------------------
\* Options page
\* ------------------------------------------------------------------------
\* what JSON message passing keeps of an updates object: a property whose
\* value is undefined is dropped
Serialize(updates) ==
  [f \in DOMAIN updates \
          (IF "previousStatus" \in DOMAIN updates /\ updates.previousStatus = "none"
           THEN {"previousStatus"} ELSE {}) |-> updates[f]]

\* the updates handleToggleRule computes from the rule as the page holds it
ToggleUpdates(currentRule, enabled) ==
  IF enabled
  THEN [enabled |-> enabled,
        status |-> IF currentRule.previousStatus # "none"
                   THEN currentRule.previousStatus ELSE "active",
        previousStatus |-> "none"]
  ELSE [enabled |-> enabled,
        status |-> "disabled",
        previousStatus |->
          IF currentRule.status = "disabled"
          THEN (IF currentRule.previousStatus # "none"
                THEN currentRule.previousStatus ELSE "active")
          ELSE currentRule.status]

\* setDomains(prev => ... rules.map(r => r.id === ruleId ? {...r, ...updates} : r))
ViewUpdate(domains, domain, ruleId, updates) ==
  [d \in DOMAIN domains |->
     IF d = domain
     THEN [i \in 1..Len(domains[d]) |->
             IF domains[d][i].id = ruleId
             THEN Merge(domains[d][i], updates) ELSE domains[d][i]]
     ELSE domains[d]]

\* setDomains(prev => ...) of handleDeleteRule
ViewDelete(domains, domain, ruleId) ==
  IF domain \notin DOMAIN domains THEN domains
  ELSE LET kept == SelectSeq(domains[domain], LAMBDA r : r.id # ruleId)
       IN IF Len(kept) = 0 THEN WithoutDomain(domains, domain)
          ELSE WithDomain(domains, domain, kept)

\* ------------------------------------------------------------------------
\* Strings, as JavaScript's String methods treat them
\* ------------------------------------------------------------------------
Range(f) == {f[i] : i \in DOMAIN f}

Min(a, b) == IF a < b THEN a ELSE b

\* s.startsWith(p)
startsWith(s, p) == Len(p) <= Len(s) /\ SubSeq(s, 1, Len(p)) = p

\* s.includes(kw)
includes(s, kw) ==
  \E i \in 1..(Len(s) - Len(kw) + 1) : SubSeq(s, i, i + Len(kw) - 1) = kw

\* s.slice(0, n)
slice(s, n) == SubSeq(s, 1, Min(Len(s), n))

\* s.slice(n)
sliceFrom(s, n) == SubSeq(s, n + 1, Len(s))

\* the lower-case letter of every upper-case one
LowerOf ==
  [A |-> "a", B |-> "b", C |-> "c", D |-> "d", E |-> "e", F |-> "f", G |-> "g",
   H |-> "h", I |-> "i", J |-> "j", K |-> "k", L |-> "l", M |-> "m", N |-> "n",
   O |-> "o", P |-> "p", Q |-> "q", R |-> "r", S |-> "s", T |-> "t", U |-> "u",
   V |-> "v", W |-> "w", X |-> "x", Y |-> "y", Z |-> "z"]

Digits == {"0", "1", "2", "3", "4", "5", "6", "7", "8", "9"}
Letters == DOMAIN LowerOf \cup Range(LowerOf)
Alnum == Letters \cup Digits

LowerChar(c) == IF c \in DOMAIN LowerOf THEN LowerOf[c] ELSE c

RECURSIVE toLowerCase(_)
toLowerCase(s) ==
  IF Len(s) = 0 THEN ""
  ELSE LowerChar(SubSeq(s, 1, 1)) \o toLowerCase(sliceFrom(s, 1))

\* s.split(/\s+/), from position i on, cur being the token read so far
RECURSIVE SplitFrom(_, _, _, _)
SplitFrom(s, i, cur, inRun) ==
  IF i > Len(s) THEN <<cur>>
  ELSE LET c == SubSeq(s, i, i)
       IN IF c = " "
          THEN (IF inRun THEN SplitFrom(s, i + 1, "", TRUE)
                ELSE <<cur>> \o SplitFrom(s, i + 1, "", TRUE))
          ELSE SplitFrom(s, i + 1, cur \o c, FALSE)

split(s) == SplitFrom(s, 1, "", FALSE)

\* parts.join(sep)
RECURSIVE join(_, _)
join(parts, sep) ==
  IF Len(parts) = 0 THEN ""
  ELSE IF Len(parts) = 1 THEN parts[1]
  ELSE parts[1] \o sep \o join(Tail(parts), sep)

\* s has a character at position i, and all from there on are in chars
AllFrom(s, i, chars) ==
  /\ i <= Len(s)
  /\ \A j \in i..Len(s) : SubSeq(s, j, j) \in chars

\* s has the characters i..k, there is one, and all are in chars
AllIn(s, i, k, chars) ==
  /\ i <= k
  /\ k <= Len(s)
  /\ \A j \in i..k : SubSeq(s, j, j) \in chars

\* ------------------------------------------------------------------------
\* Generated class names: shared/constants.ts and the element picker
\* ------------------------------------------------------------------------
\* /^css-[a-z0-9]+$/i
MatchesCss(c) == startsWith(toLowerCase(c), "css-") /\ AllFrom(c, 5, Alnum)

\* /^sc-[a-z]+$/i
MatchesScShort(c) == startsWith(toLowerCase(c), "sc-") /\ AllFrom(c, 4, Letters)

\* /^jsx-[0-9]+$/
MatchesJsxDigits(c) == startsWith(c, "jsx-") /\ AllFrom(c, 5, Digits)

\* /^_[a-zA-Z0-9]{5,}$/
MatchesUnderscore(c) == startsWith(c, "_") /\ Len(c) >= 6 /\ AllFrom(c, 2, Alnum)

\* /^[a-z]{1,2}[0-9]{n,}$/i
MatchesMinified(c, n) ==
  \E k \in 1..2 :
    /\ AllIn(c, 1, k, Letters)
    /\ Len(c) >= k + n
    /\ AllFrom(c, k + 1, Digits)

\* /^emotion-/
MatchesEmotion(c) == startsWith(c, "emotion-")

\* /^mui-/
MatchesMui(c) == startsWith(c, "mui-")

\* /^sc-[a-zA-Z]+-[a-zA-Z0-9]+$/
MatchesScLong(c) ==
  /\ startsWith(c, "sc-")
  /\ \E k \in 4..Len(c) :
       /\ AllIn(c, 4, k - 1, Letters)
       /\ SubSeq(c, k, k) = "-"
       /\ AllFrom(c, k + 1, Alnum)

\* /^[a-zA-Z]+__[a-zA-Z]+-[a-zA-Z0-9]+$/
MatchesCssModule(c) ==
  \E k \in 2..Len(c), m \in 2..Len(c) :
    /\ AllIn(c, 1, k - 1, Letters)
    /\ k + 1 <= Len(c)
    /\ SubSeq(c, k, k + 1) = "__"
    /\ AllIn(c, k + 2, m - 1, Letters)
    /\ SubSeq(c, m, m) = "-"
    /\ AllFrom(c, m + 1, Alnum)

\* /^jsx-[a-z0-9]+$/i
MatchesJsx(c) == startsWith(toLowerCase(c), "jsx-") /\ AllFrom(c, 5, Alnum)

\* STRIP_CLASS_PATTERNS.some(pattern => pattern.test(c))
STRIP_CLASS_PATTERNS(c) ==
  \/ MatchesCss(c)
  \/ MatchesScShort(c)
  \/ MatchesJsxDigits(c)
  \/ MatchesUnderscore(c)
  \/ MatchesMinified(c, 2)
  \/ MatchesEmotion(c)
  \/ MatchesMui(c)

isGeneratedClass(className) ==
  \/ MatchesCss(className)
  \/ MatchesScLong(className)
  \/ MatchesCssModule(className)
  \/ MatchesUnderscore(className)
  \/ MatchesMinified(className, 3)
  \/ MatchesJsx(className)

filterClasses(classList) ==
  slice(SelectSeq(classList, LAMBDA c : ~STRIP_CLASS_PATTERNS(c)), 5)

\* ------------------------------------------------------------------------
\* The document the serializer reads
\* ------------------------------------------------------------------------
DOM_MAX_DEPTH == 10
DOM_MAX_CHILDREN == 20
DOM_MAX_TEXT_LENGTH == 50

SKIP_TAGS ==
  {"script", "style", "noscript", "svg", "path", "meta", "link", "br", "hr",
   "wbr", "template", "iframe"}

\* an element: its tag name as tagName gives it, its id, its class list,
\* its direct text, whether getComputedStyle shows it, and the number of
\* characters its data-* attributes take in a serialized line (their count
\* is not capped); the elements of the model carry no aria-label, role,
\* href, title or placeholder, and no keyword in a data-* attribute
Element(tagName, id, classList, text, visible, dataAttrs) ==
  [tagName |-> tagName, id |-> id, classList |-> classList, text |-> text,
   visible |-> visible, dataAttrs |-> dataAttrs]

ElemPlain == Element("DIV", "", <<>>, "", TRUE, 0)
ElemReel == Element("DIV", "", <<"reel-container", "css-1x2y">>, "", TRUE, 0)
ElemLabel == Element("SPAN", "", <<>>, "Shorts", TRUE, 0)
ElemMain == Element("SECTION", "main", <<>>, "", TRUE, 0)
ElemHidden == Element("DIV", "", <<>>, "", FALSE, 0)
ElemCard == Element("DIV", "", <<"card">>, "", TRUE, 600)
ElemFeed == Element("DIV", "", <<"feed">>, "", TRUE, 4500)

\* nodes: document.documentElement, document.head, document.body, the
\* elements 1..n below body in document order, and null
HtmlElement == -1
HeadElement == -2
Body == 0
NoNode == -3

\* a document: parent[n] is the parent of element n, elem[n] what it is
Document(parent, elem) == [parent |-> parent, elem |-> elem]

EmptyDoc == Document(<<>>, <<>>)

Nodes(d) == 1..Len(d.parent)

parentElement(d, n) ==
  IF n = HtmlElement THEN NoNode
  ELSE IF n \in {HeadElement, Body} THEN HtmlElement
  ELSE d.parent[n]

\* head is display: none in the user agent style sheet
elementOf(d, n) ==
  IF n = HtmlElement THEN Element("HTML", "", <<>>, "", TRUE, 0)
  ELSE IF n = HeadElement THEN Element("HEAD", "", <<>>, "", FALSE, 0)
  ELSE IF n = Body THEN Element("BODY", "", <<>>, "", TRUE, 0)
  ELSE d.elem[n]

\* el.children, in document order
children(d, n) ==
  IF n = HtmlElement THEN <<HeadElement, Body>>
  ELSE IF n = HeadElement THEN <<>>
  ELSE SelectSeq([m \in 1..Len(d.parent) |-> m], LAMBDA m : d.parent[m] = n)

RECURSIVE Ancestors(_, _)
Ancestors(d, n) ==
  IF parentElement(d, n) = NoNode THEN {}
  ELSE {parentElement(d, n)} \cup Ancestors(d, parentElement(d, n))

\* the numbering of the elements is the order a tree walk visits them in
IsDocumentOrder(d) ==
  \A n \in Nodes(d) :
    IF n = 1 THEN d.parent[n] = Body
    ELSE d.parent[n] \in ({n - 1} \cup Ancestors(d, n - 1)) \ {HtmlElement}

Documents(kinds, n) ==
  {d \in {Document(p, e) : p \in [1..n -> 0..(n - 1)], e \in [1..n -> kinds]} :
     IsDocumentOrder(d)}

\* ------------------------------------------------------------------------
\* content/dom-serializer.ts
\* ------------------------------------------------------------------------
SerializationOptions(maxDepth, maxChildren) ==
  [maxDepth |-> maxDepth, maxChildren |-> maxChildren,
   maxTextLength |-> DOM_MAX_TEXT_LENGTH, includeHidden |-> FALSE]

DEFAULT_OPTIONS == SerializationOptions(DOM_MAX_DEPTH, DOM_MAX_CHILDREN)

isVisible(el) == el.visible

\* null, where a serialized node was asked for
NullNode == [tag |-> "null"]

\* variant: every child is visited
RECURSIVE serializeNodeAllChildren(_, _, _, _)
serializeNodeAllChildren(d, el, depth, options) ==
  IF depth > options.maxDepth THEN NullNode
  ELSE IF toLowerCase(elementOf(d, el).tagName) \in SKIP_TAGS THEN NullNode
  ELSE IF ~options.includeHidden /\ ~isVisible(elementOf(d, el)) THEN NullNode
  ELSE LET e == elementOf(d, el)
           visited == children(d, el)
           serialized == [i \in 1..Len(visited) |->
                            serializeNodeAllChildren(d, visited[i], depth + 1, options)]
       IN [tag |-> toLowerCase(e.tagName), el |-> el, id |-> e.id,
           classes |-> filterClasses(e.classList),
           dataAttrs |-> e.dataAttrs,
           text |-> slice(e.text, options.maxTextLength),
           visited |-> visited,
           children |-> SelectSeq(serialized, LAMBDA c : c # NullNode)]

\* the serialized node of element el; `el` and `visited` are history: the
\* element the node was made from and the children the loop called
\* serializeNode on
RECURSIVE serializeNode(_, _, _, _)
serializeNode(d, el, depth, options) ==
  IF depth > options.maxDepth THEN NullNode
  ELSE IF toLowerCase(elementOf(d, el).tagName) \in SKIP_TAGS THEN NullNode
  ELSE IF ~options.includeHidden /\ ~isVisible(elementOf(d, el)) THEN NullNode
  ELSE LET e == elementOf(d, el)
           kids == children(d, el)
           visited == SubSeq(kids, 1, Min(Len(kids), options.maxChildren))
           serialized == [i \in 1..Len(visited) |->
                            serializeNode(d, visited[i], depth + 1, options)]
       IN [tag |-> toLowerCase(e.tagName), el |-> el, id |-> e.id,
           classes |-> filterClasses(e.classList),
           dataAttrs |-> e.dataAttrs,
           text |-> slice(e.text, options.maxTextLength),
           visited |-> visited,
           children |-> SelectSeq(serialized, LAMBDA c : c # NullNode)]

\* the number of characters of the line toCompactString writes for a node
LineLength(node, indent) ==
  2 * indent + 1 + Len(node.tag)
  + (IF node.id # "" THEN 1 + Len(node.id) ELSE 0)
  + (IF Len(node.classes) > 0 THEN 1 + Len(join(node.classes, ".")) ELSE 0)
  + node.dataAttrs
  + 1
  + (IF node.text # "" THEN 3 + Len(node.text) ELSE 0)

\* toCompactString(node, indent).length: a serialized text is modelled by
\* the number of its characters
RECURSIVE SumLengths(_, _, _)
RECURSIVE toCompactString(_, _)
SumLengths(nodes, indent, i) ==
  IF i > Len(nodes) THEN 0
  ELSE 1 + toCompactString(nodes[i], indent) + SumLengths(nodes, indent, i + 1)

toCompactString(node, indent) ==
  IF node = NullNode THEN 0
  ELSE LineLength(node, indent) + SumLengths(node.children, indent + 1, 1)

KEYWORD_SYNONYMS ==
  [shorts |-> <<"short", "reel", "reels", "vertical-video", "vertical_video">>,
   sidebar |-> <<"side", "rail", "aside", "complementary", "sidenav", "left-nav",
                 "right-nav">>,
   ad |-> <<"ads", "advertisement", "advertisements", "sponsored", "promo",
            "promotion", "banner">>,
   comment |-> <<"comments", "replies", "reply", "discussion", "feedback">>,
   video |-> <<"videos", "player", "stream", "media", "watch">>,
   header |-> <<"nav", "navbar", "navigation", "topbar", "top-bar", "masthead">>,
   footer |-> <<"bottom", "bottombar", "bottom-bar">>,
   popup |-> <<"modal", "dialog", "overlay", "lightbox", "popover">>,
   button |-> <<"btn", "cta", "action">>,
   menu |-> <<"dropdown", "submenu", "menubar">>,
   notification |-> <<"notifications", "alert", "alerts", "toast", "snackbar">>,
   search |-> <<"searchbox", "searchbar", "search-box", "search-bar", "find">>,
   login |-> <<"signin", "sign-in", "log-in", "auth", "authenticate">>,
   signup |-> <<"register", "sign-up", "create-account", "join">>,
   profile |-> <<"account", "user", "avatar", "settings">>,
   like |-> <<"likes", "upvote", "thumbs-up", "heart", "favorite">>,
   share |-> <<"sharing", "social", "repost", "retweet">>,
   subscribe |-> <<"subscription", "follow", "following">>,
   chat |-> <<"messenger", "message", "messages", "dm", "inbox">>,
   story |-> <<"stories", "reel">>,
   feed |-> <<"timeline", "stream", "home">>,
   trending |-> <<"popular", "explore", "discover">>,
   recommended |-> <<"suggestions", "recommended", "for-you", "foryou">>]

\* the set the expanded array holds
expandKeywords(keywords) ==
  UNION {{kw}
         \cup (IF kw \in DOMAIN KEYWORD_SYNONYMS
               THEN Range(KEYWORD_SYNONYMS[kw]) ELSE {})
         \cup UNION {{key} \cup Range(KEYWORD_SYNONYMS[key]) :
                       key \in {k \in DOMAIN KEYWORD_SYNONYMS :
                                  kw \in Range(KEYWORD_SYNONYMS[k])}} :
         kw \in Range(keywords)}

\* hint.toLowerCase().split(/\s+/).filter(k => k.length > 2)
rawKeywords(hintText) ==
  SelectSeq(split(toLowerCase(hintText)), LAMBDA k : Len(k) > 2)

\* el.textContent: the text of the element and of everything below it
RECURSIVE textContent(_, _)
RECURSIVE TextOfAll(_, _, _)
TextOfAll(d, nodes, i) ==
  IF i > Len(nodes) THEN ""
  ELSE textContent(d, nodes[i]) \o TextOfAll(d, nodes, i + 1)

textContent(d, el) ==
  elementOf(d, el).text \o TextOfAll(d, children(d, el), 1)

\* the searchable text findRelevantElements builds for an element
SearchableText(d, el) ==
  LET e == elementOf(d, el)
  IN join(<<toLowerCase(textContent(d, el)),
            toLowerCase(join(e.classList, " ")),
            toLowerCase(e.id),
            toLowerCase(e.tagName),
            "", "", "", "">>, " ")

\* keywords.some(kw => text.includes(kw))
IsCandidate(d, el, keywords) ==
  LET text == SearchableText(d, el)
  IN \E kw \in keywords : includes(text, kw)

RECURSIVE getElementPath(_, _)
getElementPath(d, el) ==
  IF el = NoNode \/ el = Body THEN ""
  ELSE LET e == elementOf(d, el)
           part == toLowerCase(e.tagName)
                     \o (IF e.id # "" THEN "#" \o e.id ELSE "")
           above == getElementPath(d, parentElement(d, el))
       IN IF parentElement(d, el) \in {NoNode, Body} THEN part
          ELSE above \o "/" \o part

\* variant: only an element whose very path was matched is skipped
RECURSIVE WalkExactPaths(_, _, _, _, _)
WalkExactPaths(d, keywords, el, matches, matchedPaths) ==
  IF el > Len(d.parent) THEN matches
  ELSE LET path == getElementPath(d, el)
           isChild == path \in matchedPaths
       IN IF IsCandidate(d, el, keywords) /\ ~isChild
          THEN WalkExactPaths(d, keywords, el + 1, Append(matches, el),
                              matchedPaths \cup {path})
          ELSE WalkExactPaths(d, keywords, el + 1, matches, matchedPaths)

\* the tree walk of findRelevantElements from element el on
RECURSIVE Walk(_, _, _, _, _)
Walk(d, keywords, el, matches, matchedPaths) ==
  IF el > Len(d.parent) THEN matches
  ELSE LET path == getElementPath(d, el)
           isChild == \E p \in matchedPaths : startsWith(path, p)
       IN IF IsCandidate(d, el, keywords) /\ ~isChild
          THEN Walk(d, keywords, el + 1, Append(matches, el),
                    matchedPaths \cup {path})
          ELSE Walk(d, keywords, el + 1, matches, matchedPaths)

findRelevantElements(d, hintText) ==
  Walk(d, expandKeywords(rawKeywords(hintText)), 1, <<>>, {})

serializeDOM(d) == toCompactString(serializeNode(d, Body, 0, DEFAULT_OPTIONS), 0)

\* the context root serializeFocused takes for a match
contextRoot(d, el) ==
  LET parent == parentElement(d, el)
  IN IF parent # NoNode /\ parentElement(d, parent) # NoNode
        /\ toLowerCase(elementOf(d, parentElement(d, parent)).tagName) # "body"
     THEN parentElement(d, parent)
     ELSE parent

FocusedOptions == SerializationOptions(5, 15)

\* the loop of serializeFocused from match i on: the context blocks pushed,
\* each with the root it was serialized from
RECURSIVE FocusedFrom(_, _, _, _, _)
FocusedFrom(d, matches, i, contexts, serializedPaths) ==
  IF i > Len(matches) THEN contexts
  ELSE LET root == contextRoot(d, matches[i])
           path == getElementPath(d, root)
           contextTree == serializeNode(d, root, 0, FocusedOptions)
       IN IF root = NoNode THEN FocusedFrom(d, matches, i + 1, contexts, serializedPaths)
          ELSE IF path \in serializedPaths
                  \/ \E p \in serializedPaths : startsWith(path, p)
          THEN FocusedFrom(d, matches, i + 1, contexts, serializedPaths)
          ELSE IF contextTree # NullNode
          THEN FocusedFrom(d, matches, i + 1,
                           Append(contexts, [root |-> root,
                                             length |-> toCompactString(contextTree, 0)]),
                           serializedPaths \cup {path})
          ELSE FocusedFrom(d, matches, i + 1, contexts, serializedPaths)

MAX_MATCHES == 8

FocusedContexts(d, hintText) ==
  FocusedFrom(d, slice(findRelevantElements(d, hintText), MAX_MATCHES), 1, <<>>, {})

\* contexts.join('\n---\n').length
RECURSIVE JoinedLength(_, _, _)
JoinedLength(contexts, sep, i) ==
  IF i > Len(contexts) THEN 0
  ELSE contexts[i].length + (IF i < Len(contexts) THEN sep ELSE 0)
       + JoinedLength(contexts, sep, i + 1)

serializeFocused(d, hintText) == JoinedLength(FocusedContexts(d, hintText), 5, 1)

FOCUSED_MIN_LENGTH == 500
maxLength == 8000

\* variant: any focused text is good enough
serializeForLLMAnyFocused(d, userRequest) ==
  LET focused == serializeFocused(d, userRequest)
      full == serializeDOM(d)
  IN IF focused > 0
     THEN [header |-> "Relevant sections", tree |-> focused, truncated |-> FALSE]
     ELSE IF full > maxLength
     THEN [header |-> "Page structure (truncated)", tree |-> Min(full, maxLength),
           truncated |-> TRUE]
     ELSE [header |-> "Page structure", tree |-> full, truncated |-> FALSE]

\* what serializeForLLM returns: which header it carries, the number of
\* characters of serialized tree after the header, and whether the
\* truncation marker follows
serializeForLLM(d, userRequest) ==
  LET focused == serializeFocused(d, userRequest)
      full == serializeDOM(d)
  IN IF focused > FOCUSED_MIN_LENGTH
     THEN [header |-> "Relevant sections", tree |-> focused, truncated |-> FALSE]
     ELSE IF full > maxLength
     THEN [header |-> "Page structure (truncated)", tree |-> Min(full, maxLength),
           truncated |-> TRUE]
     ELSE [header |-> "Page structure", tree |-> full, truncated |-> FALSE]

\* ------------------------------------------------------------------------
\* Element picker: buildSelector
\* ------------------------------------------------------------------------
\* s.split(sep) for a separator of one character, from position i on
RECURSIVE SplitCharFrom(_, _, _, _)
SplitCharFrom(s, sep, i, cur) ==
  IF i > Len(s) THEN <<cur>>
  ELSE IF SubSeq(s, i, i) = sep
  THEN <<cur>> \o SplitCharFrom(s, sep, i + 1, "")
  ELSE SplitCharFrom(s, sep, i + 1, cur \o SubSeq(s, i, i))

splitChar(s, sep) == SplitCharFrom(s, sep, 1, "")

\* parts.slice(-n)
lastOf(parts, n) ==
  SubSeq(parts, IF Len(parts) > n THEN Len(parts) - n + 1 ELSE 1, Len(parts))

Attr(name, value) == [name |-> name, value |-> value]

\* an element as the picker reads it: tag name, id, the other attributes in
\* the order element.attributes lists them, and the class list
PickedElement(tagName, id, attributes, classList) ==
  [tagName |-> tagName, id |-> id, attributes |-> attributes,
   classList |-> classList]

\* element.getAttribute(name), "" for null
getAttribute(element, name) ==
  IF \E i \in 1..Len(element.attributes) : element.attributes[i].name = name
  THEN element.attributes[CHOOSE i \in 1..Len(element.attributes) :
                            /\ element.attributes[i].name = name
                            /\ \A j \in 1..(i - 1) :
                                 element.attributes[j].name # name].value
  ELSE ""

\* the attributes the data-* loop of buildSelector stops at
StableDataAttrs(element) ==
  SelectSeq(element.attributes,
            LAMBDA attr : /\ startsWith(attr.name, "data-")
                          /\ ~includes(attr.name, "reactid")
                          /\ ~includes(attr.name, "uuid"))

\* the href selector of an anchor
HrefSelector(href) ==
  LET path == splitChar(href, "?")[1]
      pathPart == join(lastOf(splitChar(path, "/"), 2), "/")
  IN IF Len(path) < 50 THEN "a[href=\"" \o path \o "\"]"
     ELSE "a[href*=\"" \o pathPart \o "\"]"

\* variant: the role is looked at before the id
buildSelectorRoleFirst(element) ==
  LET tagName == toLowerCase(element.tagName)
      ariaLabel == getAttribute(element, "aria-label")
      role == getAttribute(element, "role")
      semanticClasses ==
        slice(SelectSeq(element.classList, LAMBDA c : ~isGeneratedClass(c)), 2)
      href == getAttribute(element, "href")
  IN IF role # "" THEN tagName \o "[role=\"" \o role \o "\"]"
     ELSE IF element.id # "" THEN "#" \o element.id
     ELSE IF Len(StableDataAttrs(element)) > 0
     THEN "[" \o StableDataAttrs(element)[1].name \o "=\""
              \o StableDataAttrs(element)[1].value \o "\"]"
     ELSE IF ariaLabel # "" THEN "[aria-label=\"" \o ariaLabel \o "\"]"
     ELSE IF Len(semanticClasses) > 0
     THEN tagName \o "." \o join(semanticClasses, ".")
     ELSE IF tagName = "a" /\ href # "" /\ ~startsWith(href, "javascript:")
     THEN HrefSelector(href)
     ELSE tagName

buildSelector(element) ==
  LET tagName == toLowerCase(element.tagName)
      ariaLabel == getAttribute(element, "aria-label")
      role == getAttribute(element, "role")
      semanticClasses ==
        slice(SelectSeq(element.classList, LAMBDA c : ~isGeneratedClass(c)), 2)
      href == getAttribute(element, "href")
  IN IF element.id # "" THEN "#" \o element.id
     ELSE IF Len(StableDataAttrs(element)) > 0
     THEN "[" \o StableDataAttrs(element)[1].name \o "=\""
              \o StableDataAttrs(element)[1].value \o "\"]"
     ELSE IF ariaLabel # "" THEN "[aria-label=\"" \o ariaLabel \o "\"]"
     ELSE IF role # "" THEN tagName \o "[role=\"" \o role \o "\"]"
     ELSE IF Len(semanticClasses) > 0
     THEN tagName \o "." \o join(semanticClasses, ".")
     ELSE IF tagName = "a" /\ href # "" /\ ~startsWith(href, "javascript:")
     THEN HrefSelector(href)
     ELSE tagName

\* ------------------------------------------------------------------------
\* Export file, document and picked element before anything was done
\* ------------------------------------------------------------------------
NoElement == [tagName |-> "none"]

NoAnswer == [fn |-> "none"]

\* no file was exported yet
NoFile == [saved |-> FALSE, domains |-> NoDomains]

\* ------------------------------------------------------------------------
\* Element picker: the picking session
\* ------------------------------------------------------------------------
\* the callbacks handlePickerMessage passes to start()
SaveSelected == "saveSelectedElement"
SendCancelled == "sendPickerCancelled"

\* the ElementPicker after construction; act, selected and cancelled are
\* history: the event just handled, the arguments of the select callback's
\* calls and the number of the cancel callback's calls during it
IdlePicker ==
  [isActive |-> FALSE, overlay |-> "null", tooltip |-> "null",
   styleElement |-> FALSE, currentElement |-> NoElement,
   onSelect |-> "null", onCancel |-> "null", listeners |-> FALSE,
   bodyClass |-> FALSE, act |-> "init", selected |-> <<>>, cancelled |-> 0]

\* classes of the element that are not the picker's own
OwnClass(c) == startsWith(c, "malleableweb-")

extractElementInfo(element) ==
  [selector |-> buildSelector(element),
   tagName |-> toLowerCase(element.tagName),
   id |-> element.id,
   classes |-> SelectSeq(element.classList, LAMBDA c : ~OwnClass(c))]

cleanup(p) ==
  [p EXCEPT !.overlay = "null", !.tooltip = "null", !.styleElement = FALSE,
            !.currentElement = NoElement, !.onSelect = "null",
            !.onCancel = "null"]

ElementPickerStart(p, onSelect, onCancel) ==
  IF p.isActive THEN p
  ELSE [p EXCEPT !.isActive = TRUE, !.onSelect = onSelect, !.onCancel = onCancel,
                 !.styleElement = TRUE, !.overlay = "hidden",
                 !.tooltip = "hidden", !.listeners = TRUE, !.bodyClass = TRUE]

ElementPickerStop(p) ==
  IF ~p.isActive THEN p
  ELSE [cleanup([p EXCEPT !.isActive = FALSE, !.listeners = FALSE])
          EXCEPT !.bodyClass = FALSE]

\* what the pointer can be over: the picker's own overlay or tooltip, the
\* body, or an element of the page
OwnUI == [tagName |-> "DIV", id |-> "", attributes |-> <<>>,
          classList |-> <<"malleableweb-picker-overlay">>]
BodyTarget == [tagName |-> "BODY", id |-> "", attributes |-> <<>>, classList |-> <<>>]

handleMouseMove(p, target) ==
  IF ~p.isActive THEN p
  ELSE IF target = NoElement
          \/ \E i \in 1..Len(target.classList) :
               target.classList[i] \in {"malleableweb-picker-overlay",
                                        "malleableweb-picker-tooltip"}
  THEN p
  ELSE IF toLowerCase(target.tagName) \in {"html", "body", "script", "style", "head"}
  THEN [p EXCEPT !.overlay = IF @ # "null" THEN "hidden" ELSE @,
                 !.tooltip = IF @ # "null" THEN "hidden" ELSE @,
                 !.currentElement = NoElement]
  ELSE [p EXCEPT !.currentElement = target,
                 !.overlay = IF @ # "null" THEN "shown" ELSE @,
                 !.tooltip = IF @ # "null" THEN "shown" ELSE @]

handleClick(p) ==
  IF ~p.isActive \/ p.currentElement = NoElement THEN p
  ELSE LET selectedElement == extractElementInfo(p.currentElement)
           onSelectCallback == p.onSelect
           stopped1 == ElementPickerStop(p)
       IN [stopped1 EXCEPT !.selected = IF onSelectCallback # "null"
                                        THEN Append(@, selectedElement) ELSE @]

\* this.stop(); this.onCancel?.() reads the field after stop()
handleKeyDown(p, key) ==
  IF ~p.isActive THEN p
  ELSE IF key = "Escape"
  THEN LET stopped1 == ElementPickerStop(p)
       IN [stopped1 EXCEPT !.cancelled = IF stopped1.onCancel # "null"
                                         THEN @ + 1 ELSE @]
  ELSE p

\* ------------------------------------------------------------------------
\* State
\* ------------------------------------------------------------------------
VARIABLES
  picker,              \* the content script's ElementPicker
  handlers,            \* the service worker's running failure handlers
  notifications,       \* history: notifications created, per rule id
  handled,             \* history: reports handled to the end, per rule id
  exportFile,          \* the file exportRules last downloaded
  doc,                 \* the document the serializer reads
  hint,                \* the user request handed to the serializer
  picked,              \* the element the picker was clicked on
  answer,              \* what the last call of a pure function returned
  inbox,               \* failure reports sent and not yet handled
  view,                \* the options page's `domains` state
  page,                \* the elements this page ever has in its document
  stored,              \* the schema persisted in chrome.storage.local
  readyState,          \* document.readyState
  phase,               \* position of start(): "new", "awaiting", "done"
  observer,            \* this.observer: "null" or "connected"
  validationInterval,  \* this.validationInterval: 0 is null, else a timer id
  debounceTimer,       \* this.debounceTimer: 0 is null, else a timer id
  ruleSelectors,       \* this.ruleSelectors, in insertion order
  lastValidation,      \* this.lastValidation
  dclListener,         \* a DOMContentLoaded listener registered by start()
  timers,              \* the browser's pending timers
  records,             \* mutation records queued for the observer
  dom,                 \* the document
  last,                \* history: the step just taken and what it did
  sinceCb,             \* history: ms since the last observer callback, -1 none
  burstPasses,         \* history: mutation-driven passes of the current burst
  burstCallbacks,      \* history: callbacks of the current burst (saturating)
  stopped,             \* history: stop() has returned after start() completed
  everRejected         \* history: some failure report was rejected

serializerVars == <<doc, hint, picked, answer>>

workerVars == <<handlers, notifications, handled>>

pickerVars == <<picker>>

vars ==
  <<picker, handlers, notifications, handled, exportFile, doc, hint, picked, answer, inbox, view, page, stored, readyState, phase, observer, validationInterval, debounceTimer,
    ruleSelectors, lastValidation, dclListener, timers, records, dom, last,
    sinceCb, burstPasses, burstCallbacks, stopped, everRejected>>

\* the validator's fields and the browser objects its handles point to
V ==
  [observer |-> observer, validationInterval |-> validationInterval,
   debounceTimer |-> debounceTimer, ruleSelectors |-> ruleSelectors,
   lastValidation |-> lastValidation, timers |-> timers, records |-> records]

SetV(v) ==
  /\ observer' = v.observer
  /\ validationInterval' = v.validationInterval
  /\ debounceTimer' = v.debounceTimer
  /\ ruleSelectors' = v.ruleSelectors
  /\ lastValidation' = v.lastValidation
  /\ timers' = v.timers
  /\ records' = v.records

\* ------------------------------------------------------------------------
\* Timers
\* ------------------------------------------------------------------------
Timer(id, kind, rem, batch) ==
  [id |-> id, kind |-> kind, rem |-> rem, batch |-> batch]

TimerIds(ts) == {t.id : t \in ts}

\* a handle no pending timer and no field of the validator holds
FreshId(used) == CHOOSE n \in 1..(Cardinality(used) + 1) : n \notin used

\* clearTimeout / clearInterval: no effect on an id that is not pending
clearTimer(ts, id) == {t \in ts : t.id # id}

TimerDue == \E t \in timers : t.rem = 0

\* ------------------------------------------------------------------------
\* History records
\* ------------------------------------------------------------------------
NoPass(act) ==
  [act |-> act, pass |-> FALSE, failures |-> <<>>, validRules |-> {},
   results |-> {}, logged |-> {}, msgs |-> <<>>, outcome |-> "none"]

PassOf(act, r, outcome) ==
  [act |-> act, pass |-> TRUE, failures |-> r.failures,
   validRules |-> r.validRules, results |-> r.results,
   logged |-> r.logged, msgs |-> r.msgs, outcome |-> outcome]

\* rule ids the model generates
RuleIds == {"rFoo", "rAds"}

\* the tabs whose reports the service worker handles, one handler each
TabIds == {"tabA", "tabB"}

\* no call of handleValidationFailure under way
IdleHandler ==
  [pc |-> "idle", domain |-> <<>>, failedRuleIds |-> <<>>, i |-> 0,
   settings |-> DEFAULT_SETTINGS, rule |-> NoRule,
   updates |-> [failureCount |-> 0, status |-> "active"],
   schema |-> EmptySchema]

\* the validator, the store and the options page before anything ran
InitIdle ==
  /\ picker = IdlePicker
  /\ handlers = [t \in TabIds |-> IdleHandler]
  /\ notifications = [id \in RuleIds |-> 0]
  /\ handled = [id \in RuleIds |-> 0]
  /\ exportFile = NoFile
  /\ inbox = {}
  /\ view = NoDomains
  /\ readyState = "loading"
  /\ phase = "new"
  /\ observer = "null"
  /\ validationInterval = 0
  /\ debounceTimer = 0
  /\ ruleSelectors = <<>>
  /\ lastValidation = <<>>
  /\ dclListener = FALSE
  /\ timers = {}
  /\ records = {}
  /\ last = NoPass("init")
  /\ sinceCb = -1
  /\ burstPasses = 0
  /\ burstCallbacks = 0
  /\ stopped = FALSE
  /\ everRejected = FALSE

\* what every page starts from
InitCommon ==
  /\ doc = EmptyDoc
  /\ hint = ""
  /\ picked = NoElement
  /\ answer = NoAnswer
  /\ InitIdle

\* a page with the single element #foo, hidden by the rule's injected CSS
\* or not, on a domain that holds one rule or none that is tracked
Init ==
  /\ InitCommon
  /\ page = {"e1"}
  /\ stored \in {SchemaOf(rs) : rs \in {<<RuleFoo>>, <<RuleOff>>, <<RuleOff, RuleFoo>>,
                                        <<>>, <<RuleMuted, RuleShelved>>}}
  /\ dom \in {d \in [Elems -> ElemStates] :
                \A e \in Elems : d[e].present <=> e \in page}

\* any page over Elems, on a domain with any list of rules
InitPass ==
  /\ InitCommon
  /\ page = Elems
  /\ stored \in {SchemaOf(rs) : rs \in RuleLists}
  /\ dom \in [Elems -> ElemStates]

\* ------------------------------------------------------------------------
\* RuleValidator.stop
\* ------------------------------------------------------------------------
\* variant: the debounce timer is cleared but its handle is kept
stopKeepsHandle(v) ==
  LET v1 == IF v.observer # "null"
            THEN [v EXCEPT !.observer = "null", !.records = {}]
            ELSE v
      v2 == IF v1.validationInterval # 0
            THEN [v1 EXCEPT !.timers = clearTimer(@, v1.validationInterval),
                            !.validationInterval = 0]
            ELSE v1
      v3 == IF v2.debounceTimer # 0
            THEN [v2 EXCEPT !.timers = clearTimer(@, v2.debounceTimer)]
            ELSE v2
  IN v3

\* observer.disconnect() also drops the records not yet delivered
stop(v) ==
  LET v1 == IF v.observer # "null"
            THEN [v EXCEPT !.observer = "null", !.records = {}]
            ELSE v
      v2 == IF v1.validationInterval # 0
            THEN [v1 EXCEPT !.timers = clearTimer(@, v1.validationInterval),
                            !.validationInterval = 0]
            ELSE v1
      v3 == IF v2.debounceTimer # 0
            THEN [v2 EXCEPT !.timers = clearTimer(@, v2.debounceTimer),
                            !.debounceTimer = 0]
            ELSE v2
  IN v3

\* ------------------------------------------------------------------------
\* RuleValidator.setupObserver: the observer callback and its timer callback
\* ------------------------------------------------------------------------
\* what observe(document.body, {childList, subtree, attributes,
\* attributeFilter: ['class', 'style']}) records for a mutation
Observed(kind) == kind \in {"childList", "class", "style"}

\* mutations.some(m => childList || attributes class/style)
relevantChange(mutations) ==
  \E m \in mutations : m = "childList" \/ m = "class" \/ m = "style"

\* variant: the pending debounce timer is not cleared
OnMutationsNoClear(v, mutations) ==
  LET id == FreshId(TimerIds(v.timers) \cup {v.validationInterval})
  IN [v EXCEPT !.timers = v.timers \cup
                 {Timer(id, "debounce", VALIDATION_DEBOUNCE_MS, mutations)},
               !.debounceTimer = id,
               !.records = {}]

\* the MutationObserver callback: re-arm the debounce timer
OnMutations(v, mutations) ==
  LET cleared == IF v.debounceTimer # 0
                 THEN clearTimer(v.timers, v.debounceTimer)
                 ELSE v.timers
      id == FreshId(TimerIds(cleared) \cup {v.validationInterval})
  IN [v EXCEPT !.timers = cleared \cup
                 {Timer(id, "debounce", VALIDATION_DEBOUNCE_MS, mutations)},
               !.debounceTimer = id,
               !.records = {}]

\* ------------------------------------------------------------------------
\* The .catch(() => {}) of the failure report
\* ------------------------------------------------------------------------
\* variant: a rejected send tears the validator down
SendRejectedTearsDown(v) ==
  [v EXCEPT !.observer = "null", !.records = {},
            !.timers = clearTimer(@, v.validationInterval),
            !.validationInterval = 0]

SendRejected(v) == v

\* how chrome.runtime.sendMessage can settle for the messages of one pass
SendOutcomes(msgs) == IF msgs = <<>> THEN {"none"} ELSE {"delivered", "rejected"}

\* variant: a pass first reloads the tracked rules from the store
RunPassReloading(act, v) ==
  LET keep == SelectSeq(getRulesForDomain(stored, PageDomain),
                        LAMBDA rule : rule.enabled /\ rule.status # "disabled")
      tracked == [i \in 1..Len(keep) |->
                    [id |-> keep[i].id, selectors |-> keep[i].selectors]]
      r == validateAll(dom, tracked, v.lastValidation)
      v1 == [v EXCEPT !.lastValidation = r.lastValidation,
                      !.ruleSelectors = tracked]
  IN \E outcome \in SendOutcomes(r.msgs) :
       /\ SetV(IF outcome = "rejected" THEN SendRejected(v1) ELSE v1)
       /\ last' = PassOf(act, r, outcome)
       /\ everRejected' = (everRejected \/ outcome = "rejected")

\* one validation pass run by the step named act, on validator state v
RunPass(act, v) ==
  LET r == validateAll(dom, v.ruleSelectors, v.lastValidation)
      v1 == [v EXCEPT !.lastValidation = r.lastValidation]
  IN \E outcome \in SendOutcomes(r.msgs) :
       /\ SetV(IF outcome = "rejected" THEN SendRejected(v1) ELSE v1)
       /\ last' = PassOf(act, r, outcome)
       /\ everRejected' = (everRejected \/ outcome = "rejected")

\* ------------------------------------------------------------------------
\* Page load and start()
\* ------------------------------------------------------------------------
DOMContentLoaded ==
  /\ readyState = "loading"
  /\ readyState' = "interactive"
  /\ dclListener' = FALSE
  /\ timers' = IF dclListener
               THEN timers \cup
                      {Timer(FreshId(TimerIds(timers) \cup
                                       {validationInterval, debounceTimer}),
                             "initial", INITIAL_VALIDATION_MS, {})}
               ELSE timers
  /\ last' = NoPass("DOMContentLoaded")
  /\ UNCHANGED <<workerVars, pickerVars, serializerVars, exportFile, inbox, view, page, stored, phase, observer, validationInterval, debounceTimer,
                 ruleSelectors, lastValidation, records, dom, sinceCb,
                 burstPasses, burstCallbacks, stopped, everRejected>>

\* content/index.ts calls start() once the document is no longer loading;
\* start() sends GET_RULES_FOR_DOMAIN and awaits the response
StartCall ==
  /\ phase = "new"
  /\ readyState # "loading"
  /\ phase' = "awaiting"
  /\ last' = NoPass("StartCall")
  /\ UNCHANGED <<workerVars, pickerVars, serializerVars, exportFile, inbox, view, page, stored, readyState, observer, validationInterval, debounceTimer,
                 ruleSelectors, lastValidation, dclListener, timers, records,
                 dom, sinceCb, burstPasses, burstCallbacks, stopped,
                 everRejected>>

\* variant: the status of a rule is not looked at
TrackedOfEnabledOnly(rules) ==
  LET keep == SelectSeq(rules, LAMBDA r : r.enabled)
  IN [i \in 1..Len(keep) |-> [id |-> keep[i].id, selectors |-> keep[i].selectors]]

\* rules the validator tracks: enabled and not disabled, in response order
TrackedOf(rules) ==
  LET keep == SelectSeq(rules, LAMBDA r : r.enabled /\ r.status # "disabled")
  IN [i \in 1..Len(keep) |-> [id |-> keep[i].id, selectors |-> keep[i].selectors]]

\* start() after the await
StartResume ==
  /\ phase = "awaiting"
  /\ phase' = "done"
  /\ last' = NoPass("StartResume")
  /\ \E response \in Responses(getRulesForDomain(stored, PageDomain)) :
       IF ~response.ok \/ Len(response.rules) = 0
       THEN UNCHANGED <<observer, validationInterval, debounceTimer,
                        ruleSelectors, lastValidation, dclListener, timers,
                        records>>
       ELSE
         LET tracked == ruleSelectors \o TrackedOf(response.rules)
         IN /\ ruleSelectors' = tracked
            /\ IF Len(tracked) = 0
               THEN UNCHANGED <<observer, validationInterval, debounceTimer,
                                lastValidation, dclListener, timers, records>>
               ELSE
                 LET loading == readyState = "loading"
                     used0 == TimerIds(timers) \cup {validationInterval, debounceTimer}
                     initId == FreshId(used0)
                     ts1 == IF loading THEN timers
                            ELSE timers \cup
                                   {Timer(initId, "initial", INITIAL_VALIDATION_MS, {})}
                     intId == FreshId(TimerIds(ts1) \cup {validationInterval, debounceTimer})
                 IN /\ dclListener' = (dclListener \/ loading)
                    /\ timers' = ts1 \cup
                         {Timer(intId, "interval", VALIDATION_INTERVAL_MS, {})}
                    /\ validationInterval' = intId
                    /\ observer' = "connected"
                    /\ UNCHANGED <<debounceTimer, lastValidation, records>>
  /\ UNCHANGED <<workerVars, pickerVars, serializerVars, exportFile, inbox, view, page, stored, readyState, dom, sinceCb, burstPasses, burstCallbacks,
                 stopped, everRejected>>

\* stop(), callable by the page at any time
Stop ==
  /\ SetV(stop(V))
  /\ stopped' = (stopped \/ phase = "done")
  /\ last' = NoPass(IF last.act \in {"Stop", "StopAgain"}
                     THEN "StopAgain" ELSE "Stop")
  /\ UNCHANGED <<workerVars, pickerVars, serializerVars, exportFile, inbox, view, page, stored, readyState, phase, dclListener, dom, sinceCb, burstPasses,
                 burstCallbacks, everRejected>>

\* ------------------------------------------------------------------------
\* The page mutates
\* ------------------------------------------------------------------------
\* the record a mutation of the given kind leaves in the observer's queue
Enqueue(kind) ==
  records' = IF observer = "connected" /\ Observed(kind)
             THEN records \cup {kind}
             ELSE records

DomStep(act) ==
  /\ ~TimerDue
  /\ last' = NoPass(act)
  /\ UNCHANGED <<workerVars, pickerVars, serializerVars, exportFile, inbox, view, page, stored, readyState, phase, observer, validationInterval,
                 debounceTimer, ruleSelectors, lastValidation, dclListener,
                 timers, sinceCb, burstPasses, burstCallbacks, stopped,
                 everRejected>>

RemoveElement ==
  /\ \E e \in Elems :
       /\ dom[e].present
       /\ dom' = [dom EXCEPT ![e] = Absent]
  /\ Enqueue("childList")
  /\ DomStep("RemoveElement")

InsertElement ==
  /\ \E e \in Elems :
       /\ e \in page
       /\ ~dom[e].present
       /\ \E s \in ElemStates : s.present /\ dom' = [dom EXCEPT ![e] = s]
  /\ Enqueue("childList")
  /\ DomStep("InsertElement")

\* the computed style of an element changes: through its class or style
\* attribute, or through a style sheet (which mutates nothing below body)
SetStyle ==
  /\ \E e \in Elems, s \in ElemStates, kind \in {"style", "stylesheet"} :
       /\ dom[e].present /\ s.present /\ s # dom[e]
       /\ dom' = [dom EXCEPT ![e] = s]
       /\ Enqueue(kind)
  /\ DomStep("SetStyle")

\* the queued records are delivered to the observer callback
ObserverCallback ==
  /\ ~TimerDue
  /\ observer = "connected"
  /\ records # {}
  /\ SetV(OnMutations(V, records))
  /\ LET newBurst == sinceCb = -1 \/ sinceCb >= VALIDATION_DEBOUNCE_MS
     IN /\ burstPasses' = IF newBurst THEN 0 ELSE burstPasses
        /\ burstCallbacks' = IF newBurst THEN 1
                             ELSE Min(burstCallbacks + 1, BurstCap)
  /\ sinceCb' = 0
  /\ last' = NoPass("ObserverCallback")
  /\ UNCHANGED <<workerVars, pickerVars, serializerVars, exportFile, inbox, view, page, stored, readyState, phase, dclListener, dom, stopped, everRejected>>

\* ------------------------------------------------------------------------
\* Time and timer callbacks
\* ------------------------------------------------------------------------
Tick ==
  /\ ~TimerDue
  /\ records = {}
  /\ timers' = {[t EXCEPT !.rem = @ - TickMs] : t \in timers}
  /\ sinceCb' = IF sinceCb = -1 THEN -1
                ELSE Min(sinceCb + TickMs, VALIDATION_DEBOUNCE_MS + TickMs)
  /\ last' = NoPass("Tick")
  /\ UNCHANGED <<workerVars, pickerVars, serializerVars, exportFile, inbox, view, page, stored, readyState, phase, observer, validationInterval,
                 debounceTimer, ruleSelectors, lastValidation, dclListener,
                 records, dom, burstPasses, burstCallbacks, stopped,
                 everRejected>>

\* time passes until the next timer is due (a page on which nothing else
\* happens in between)
Advance ==
  /\ ~TimerDue
  /\ records = {}
  /\ timers # {}
  /\ LET d == CHOOSE x \in {t.rem : t \in timers} : \A t \in timers : x <= t.rem
     IN /\ timers' = {[t EXCEPT !.rem = @ - d] : t \in timers}
        /\ sinceCb' = IF sinceCb = -1 THEN -1
                      ELSE Min(sinceCb + d, VALIDATION_DEBOUNCE_MS + TickMs)
  /\ last' = NoPass("Advance")
  /\ UNCHANGED <<workerVars, pickerVars, serializerVars, exportFile, inbox, view, page, stored, readyState, phase, observer, validationInterval,
                 debounceTimer, ruleSelectors, lastValidation, dclListener,
                 records, dom, burstPasses, burstCallbacks, stopped,
                 everRejected>>

\* setTimeout(() => this.validateAll(), 1000)
InitialFire ==
  /\ \E t \in timers :
       /\ t.kind = "initial" /\ t.rem = 0
       /\ RunPass("InitialFire", [V EXCEPT !.timers = timers \ {t}])
  /\ UNCHANGED <<workerVars, pickerVars, serializerVars, exportFile, inbox, view, page, stored, readyState, phase, dclListener, dom, sinceCb, burstPasses,
                 burstCallbacks, stopped>>

\* variant: a tick inside a pending debounce window leaves the pass to the
\* debounce timer
IntervalFireCoalesced ==
  /\ \E t \in timers :
       /\ t.kind = "interval" /\ t.rem = 0
       /\ LET v == [V EXCEPT !.timers = (timers \ {t}) \cup
                      {[t EXCEPT !.rem = VALIDATION_INTERVAL_MS]}]
          IN IF \E d \in timers : d.kind = "debounce"
             THEN /\ SetV(v)
                  /\ last' = NoPass("IntervalFire")
                  /\ UNCHANGED everRejected
             ELSE RunPass("IntervalFire", v)
  /\ UNCHANGED <<workerVars, pickerVars, serializerVars, exportFile, inbox, view, page, stored, readyState, phase, dclListener, dom, sinceCb,
                 burstPasses, burstCallbacks, stopped>>

\* variant: the periodic timer is a one-shot timer
IntervalFireOnce ==
  /\ \E t \in timers :
       /\ t.kind = "interval" /\ t.rem = 0
       /\ RunPass("IntervalFire", [V EXCEPT !.timers = timers \ {t}])
  /\ UNCHANGED <<workerVars, pickerVars, serializerVars, exportFile, inbox, view, page, stored, readyState, phase, dclListener, dom, sinceCb,
                 burstPasses, burstCallbacks, stopped>>

\* setInterval(() => this.validateAll(), VALIDATION_INTERVAL_MS)
IntervalFire ==
  /\ \E t \in timers :
       /\ t.kind = "interval" /\ t.rem = 0
       /\ RunPass("IntervalFire",
                  [V EXCEPT !.timers = (timers \ {t}) \cup
                     {[t EXCEPT !.rem = VALIDATION_INTERVAL_MS]}])
  /\ UNCHANGED <<workerVars, pickerVars, serializerVars, exportFile, inbox, view, page, stored, readyState, phase, dclListener, dom, sinceCb, burstPasses,
                 burstCallbacks, stopped>>

\* the debounce timer's callback
DebounceFire ==
  /\ \E t \in timers :
       /\ t.kind = "debounce" /\ t.rem = 0
       /\ IF relevantChange(t.batch)
          THEN /\ RunPass("DebounceFire", [V EXCEPT !.timers = timers \ {t}])
               /\ burstPasses' = burstPasses + 1
          ELSE /\ timers' = timers \ {t}
               /\ last' = NoPass("DebounceFire")
               /\ UNCHANGED <<observer, validationInterval, debounceTimer,
                              ruleSelectors, lastValidation, records,
                              burstPasses, everRejected>>
  /\ UNCHANGED <<workerVars, pickerVars, serializerVars, exportFile, inbox, view, page, stored, readyState, phase, dclListener, dom, sinceCb,
                 burstCallbacks, stopped>>

Next ==
  \/ DOMContentLoaded
  \/ StartCall
  \/ StartResume
  \/ Stop
  \/ RemoveElement
  \/ InsertElement
  \/ SetStyle
  \/ ObserverCallback
  \/ Tick
  \/ InitialFire
  \/ IntervalFire
  \/ DebounceFire

Spec == Init /\ [][Next]_vars

\* validation passes on any page and rule list, the page itself at rest
NextPass ==
  \/ DOMContentLoaded
  \/ StartCall
  \/ StartResume
  \/ Advance
  \/ InitialFire
  \/ IntervalFire

SpecPass == InitPass /\ [][NextPass]_vars

\* ------------------------------------------------------------------------
\* The store: service worker handlers and the options page
\* ------------------------------------------------------------------------
validatorVars ==
  <<page, readyState, phase, observer, validationInterval, debounceTimer,
    ruleSelectors, lastValidation, dclListener, timers, records, dom,
    sinceCb, burstPasses, burstCallbacks, stopped, everRejected>>

\* history of a step on the store: the message's domain and rule ids, the
\* rule ids notified for, and the enabled argument of a toggle
StoreStep(act, domain, ruleIds, notified, enabled) ==
  [act |-> act, pass |-> FALSE, failures |-> <<>>, validRules |-> {},
   results |-> {}, logged |-> {}, msgs |-> <<>>, outcome |-> "none",
   domain |-> domain, ruleIds |-> ruleIds, notified |-> notified,
   enabled |-> enabled]

\* the rule handleGenerateCSS creates under a fresh id
NewRule(id) == IF id = "rFoo" THEN RuleFoo ELSE RuleAds

\* the selectors a regeneration returns
RegeneratedSelectors == <<SelAd>>

\* failedRuleIds as validateAll sends them: not empty, no duplicates
ReportLists ==
  {ids \in UNION {[1..n -> RuleIds] : n \in 1..2} :
     \A i, j \in 1..Len(ids) : i # j => ids[i] # ids[j]}

StoredIds(schema) ==
  UNION {{schema.domains[d][i].id : i \in 1..Len(schema.domains[d])} :
           d \in DOMAIN schema.domains}

\* no page and no validator around the store
InitStore ==
  /\ InitCommon
  /\ page = {}
  /\ stored = EmptySchema
  /\ dom = [e \in Elems |-> Absent]

\* handleGenerateCSS, the LLM having answered: a new rule is saved
GenerateCSS ==
  /\ \E domain \in Domains, id \in RuleIds :
       /\ \A d \in DOMAIN stored.domains : IndexOf(stored.domains[d], id) = 0
       /\ stored' = saveRule(stored, domain, NewRule(id))
       /\ last' = StoreStep("GenerateCSS", domain, <<id>>, <<>>, TRUE)
  /\ UNCHANGED view
  /\ UNCHANGED <<inbox, validatorVars, serializerVars, workerVars, pickerVars, exportFile>>

\* RULE_VALIDATION_FAILURE is handled
HandleFailure ==
  /\ \E domain \in Domains, failedRuleIds \in ReportLists :
       /\ \A i \in 1..Len(failedRuleIds) :
            LET rule == getRule(stored, domain, failedRuleIds[i])
            IN rule # NoRule => rule.failureCount < MaxFailures
       /\ LET r == handleValidationFailure(stored, domain, failedRuleIds)
          IN /\ stored' = r.schema
             /\ last' = StoreStep("HandleFailure", domain, failedRuleIds,
                                   r.notified, TRUE)
  /\ UNCHANGED view
  /\ UNCHANGED <<inbox, validatorVars, serializerVars, workerVars, pickerVars, exportFile>>

\* the options page opens or reloads: loadData
OptionsLoad ==
  /\ view' = stored.domains
  /\ last' = StoreStep("OptionsLoad", <<>>, <<>>, <<>>, TRUE)
  /\ UNCHANGED stored
  /\ UNCHANGED <<inbox, validatorVars, serializerVars, workerVars, pickerVars, exportFile>>

\* the checkbox of a rule the options page lists is clicked (it shows
\* rule.enabled and passes the flipped value); UPDATE_RULE is handled
ToggleRule ==
  /\ \E domain \in DOMAIN view :
       \E i \in 1..Len(view[domain]) :
         LET currentRule == view[domain][i]
             enabled == ~currentRule.enabled
             updates == ToggleUpdates(currentRule, enabled)
         IN /\ stored' = updateRule(stored, domain, currentRule.id, Serialize(updates))
            /\ view' = ViewUpdate(view, domain, currentRule.id, updates)
            /\ last' = StoreStep("ToggleRule", domain, <<currentRule.id>>, <<>>,
                                  enabled)
  /\ UNCHANGED <<inbox, validatorVars, serializerVars, workerVars, pickerVars, exportFile>>

\* handleDeleteRule on a rule the options page lists; DELETE_RULE is handled
OptionsDelete ==
  /\ \E domain \in DOMAIN view :
       \E i \in 1..Len(view[domain]) :
         LET ruleId == view[domain][i].id
         IN /\ stored' = deleteRule(stored, domain, ruleId)
            /\ view' = ViewDelete(view, domain, ruleId)
            /\ last' = StoreStep("OptionsDelete", domain, <<ruleId>>, <<>>, TRUE)
  /\ UNCHANGED <<inbox, validatorVars, serializerVars, workerVars, pickerVars, exportFile>>

\* the popup deletes a rule it lists for its tab's domain (the rule may be
\* gone from the store by then); DELETE_RULE is handled
PopupDelete ==
  /\ \E domain \in Domains, ruleId \in RuleIds :
       /\ stored' = deleteRule(stored, domain, ruleId)
       /\ last' = StoreStep("PopupDelete", domain, <<ruleId>>, <<>>, TRUE)
  /\ UNCHANGED view
  /\ UNCHANGED <<inbox, validatorVars, serializerVars, workerVars, pickerVars, exportFile>>

\* history: the reports in flight that list the rule being regenerated
\* are marked as sent before this reset
MarkReset(reports, domain, ruleId) ==
  {IF m.domain = domain /\ \E i \in 1..Len(m.failedRuleIds) : m.failedRuleIds[i] = ruleId
   THEN [m EXCEPT !.resetSince = @ \cup {ruleId}] ELSE m : m \in reports}

\* handleRegenerateRule from the options page, the LLM having answered;
\* the page reloads its data on success
RegenerateRule ==
  /\ \E domain \in DOMAIN view :
       \E i \in 1..Len(view[domain]) :
         LET ruleId == view[domain][i].id
         IN /\ getRule(stored, domain, ruleId) # NoRule
            /\ stored' = updateRule(stored, domain, ruleId,
                                    [generatedCSS |-> 2,
                                     selectors |-> RegeneratedSelectors,
                                     status |-> "active",
                                     failureCount |-> 0])
            /\ view' = stored'.domains
            /\ inbox' = MarkReset(inbox, domain, ruleId)
            /\ last' = StoreStep("RegenerateRule", domain, <<ruleId>>, <<>>, TRUE)
  /\ UNCHANGED <<validatorVars, serializerVars, workerVars, pickerVars, exportFile>>

\* handleSettingsChange; SAVE_SETTINGS is handled
SaveSettings ==
  /\ stored' = [stored EXCEPT !.settings.notifyOnFailure = ~@]
  /\ last' = StoreStep("SaveSettings", <<>>, <<>>, <<>>, TRUE)
  /\ UNCHANGED view
  /\ UNCHANGED <<inbox, validatorVars, serializerVars, workerVars, pickerVars, exportFile>>

\* the messages a chat leaves with the rule
ChatLogs == {<<>>, <<"hide the sidebar">>}

\* the popup stores the chat of a rule; SAVE_CHAT_MESSAGES is handled
SaveChatMessages ==
  /\ \E domain \in DOMAIN stored.domains, messages \in ChatLogs :
       \E i \in 1..Len(stored.domains[domain]) :
         LET ruleId == stored.domains[domain][i].id
         IN /\ stored' = updateRule(stored, domain, ruleId, [chatMessages |-> messages])
            /\ last' = StoreStep("SaveChatMessages", domain, <<ruleId>>, <<>>, TRUE)
  /\ UNCHANGED <<inbox, view, validatorVars, serializerVars, workerVars, pickerVars, exportFile>>

\* a validation pass on some tab of the domain sends RULE_VALIDATION_FAILURE
SendFailureReport ==
  /\ Cardinality(inbox) < MaxInFlight
  /\ \E domain \in Domains, failedRuleIds \in ReportLists :
       /\ inbox' = inbox \cup {[domain |-> domain, failedRuleIds |-> failedRuleIds,
                                 resetSince |-> {}]}
       /\ last' = StoreStep("SendFailureReport", domain, failedRuleIds, <<>>, TRUE)
  /\ UNCHANGED <<stored, view, validatorVars, serializerVars, workerVars, pickerVars, exportFile>>

\* the service worker receives a report in flight and handles it
ReceiveFailureReport ==
  /\ \E m \in inbox :
       /\ \A i \in 1..Len(m.failedRuleIds) :
            LET rule == getRule(stored, m.domain, m.failedRuleIds[i])
            IN rule # NoRule => rule.failureCount < MaxFailures
       /\ LET r == handleValidationFailure(stored, m.domain, m.failedRuleIds)
          IN /\ stored' = r.schema
             /\ last' = StoreStep("ReceiveFailureReport", m.domain,
                                   m.failedRuleIds, r.notified, TRUE)
       /\ inbox' = inbox \ {m}
  /\ UNCHANGED <<view, validatorVars, serializerVars, workerVars, pickerVars, exportFile>>

\* rules are created, reported as failing and deleted
NextStore ==
  \/ GenerateCSS
  \/ HandleFailure
  \/ PopupDelete
  \/ SaveSettings

SpecStore == InitStore /\ [][NextStore]_vars

\* the rule rFoo has been created for the page's domain
InitOptions ==
  /\ InitCommon
  /\ page = {}
  /\ stored = SchemaOf(<<RuleFoo>>)
  /\ dom = [e \in Elems |-> Absent]

\* the options page is used while failure reports come in
NextOptions ==
  \/ HandleFailure
  \/ OptionsLoad
  \/ ToggleRule
  \/ OptionsDelete
  \/ RegenerateRule
  \/ SaveSettings

SpecOptions == InitOptions /\ [][NextOptions]_vars

\* failure reports travel to the service worker while the rule rFoo is
\* toggled, regenerated and chatted about
NextReports ==
  \/ SendFailureReport
  \/ ReceiveFailureReport
  \/ OptionsLoad
  \/ ToggleRule
  \/ RegenerateRule
  \/ SaveChatMessages

SpecReports == InitOptions /\ [][NextReports]_vars

\* ------------------------------------------------------------------------
\* The serializer's functions, called on a document
\* ------------------------------------------------------------------------
MaxNodes == 3
MaxOption == 2

\* requests that give no keyword, one with synonyms, and one that no
\* element of the model matches
Hints == {"", "is it", "hide Shorts", "hide footer"}

\* elements that differ in what shows and in how long their line is
SizedKinds == {ElemHidden, ElemReel, ElemCard, ElemFeed}

\* elements that differ in what matches and in their path
PathKinds == {ElemPlain, ElemReel, ElemLabel, ElemMain}

Called(fn, result) == [fn |-> fn, result |-> result]

SerializeNode ==
  /\ answer = NoAnswer
  /\ \E el \in {Body} \cup Nodes(doc), maxDepth \in 0..MaxOption,
        maxChildren \in 0..MaxOption :
       LET options == SerializationOptions(maxDepth, maxChildren)
       IN answer' = [fn |-> "serializeNode", el |-> el, options |-> options,
                     result |-> serializeNode(doc, el, 0, options)]
  /\ UNCHANGED <<workerVars, pickerVars, doc, hint, picked, exportFile, inbox, view, stored, last, validatorVars>>

ExpandKeywords ==
  /\ answer = NoAnswer
  /\ \E hintText \in Hints :
       /\ hint' = hintText
       /\ answer' = Called("expandKeywords", expandKeywords(rawKeywords(hintText)))
  /\ UNCHANGED <<workerVars, pickerVars, doc, picked, exportFile, inbox, view, stored, last, validatorVars>>

FindRelevantElements ==
  /\ answer = NoAnswer
  /\ \E hintText \in Hints :
       /\ hint' = hintText
       /\ answer' = Called("findRelevantElements", findRelevantElements(doc, hintText))
  /\ UNCHANGED <<workerVars, pickerVars, doc, picked, exportFile, inbox, view, stored, last, validatorVars>>

SerializeFocused ==
  /\ answer = NoAnswer
  /\ \E hintText \in Hints :
       /\ hint' = hintText
       /\ answer' = [fn |-> "serializeFocused",
                     contexts |-> FocusedContexts(doc, hintText),
                     result |-> serializeFocused(doc, hintText)]
  /\ UNCHANGED <<workerVars, pickerVars, doc, picked, exportFile, inbox, view, stored, last, validatorVars>>

SerializeForLLM ==
  /\ answer = NoAnswer
  /\ \E hintText \in Hints :
       /\ hint' = hintText
       /\ answer' = Called("serializeForLLM", serializeForLLM(doc, hintText))
  /\ UNCHANGED <<workerVars, pickerVars, doc, picked, exportFile, inbox, view, stored, last, validatorVars>>

InitDocument(kinds) ==
  /\ InitIdle
  /\ page = {}
  /\ stored = EmptySchema
  /\ dom = [e \in Elems |-> Absent]
  /\ picked = NoElement
  /\ answer = NoAnswer
  /\ hint = ""
  /\ doc \in UNION {Documents(kinds, n) : n \in 0..MaxNodes}

InitSerialize == InitDocument(SizedKinds)

NextSerialize ==
  \/ SerializeNode
  \/ SerializeFocused
  \/ SerializeForLLM

SpecSerialize == InitSerialize /\ [][NextSerialize]_vars

InitFocus == InitDocument(PathKinds)

NextFocus ==
  \/ ExpandKeywords
  \/ FindRelevantElements
  \/ SerializeFocused

SpecFocus == InitFocus /\ [][NextFocus]_vars

\* ------------------------------------------------------------------------
\* The picker's and the serializer's functions, called on one element
\* ------------------------------------------------------------------------
MaxClasses == 2

\* class names people write and class names build tools write
ClassNames ==
  {"sidebar", "css-1x2y", "sc-bdnylx", "jsx-abc", "Button__root-3x"}

ClassLists == UNION {[1..n -> ClassNames] : n \in 0..MaxClasses}

LongHref == "/channel/UCabcdefghijklmnopqrstuvwxyz0123456789/videos/latest?view=0"

\* the attributes an element may carry, in the order it lists them
AttributeLists ==
  {data \o aria \o role \o href :
     data \in {<<>>, <<Attr("data-reactid", "7")>>, <<Attr("data-testid", "card")>>,
               <<Attr("data-reactid", "7"), Attr("data-testid", "card")>>},
     aria \in {<<>>, <<Attr("aria-label", "Close")>>},
     role \in {<<>>, <<Attr("role", "button")>>},
     href \in {<<>>, <<Attr("href", "/watch?v=1")>>,
               <<Attr("href", "javascript:void(0)")>>, <<Attr("href", LongHref)>>}}

PickedElements ==
  {PickedElement(tagName, id, attributes, classList) :
     tagName \in {"DIV", "A"}, id \in {"", "main"},
     attributes \in AttributeLists, classList \in ClassLists}

BuildSelector ==
  /\ answer = NoAnswer
  /\ answer' = Called("buildSelector", buildSelector(picked))
  /\ UNCHANGED <<workerVars, pickerVars, doc, hint, picked, exportFile, inbox, view, stored, last, validatorVars>>

FilterClasses ==
  /\ answer = NoAnswer
  /\ answer' = Called("filterClasses", filterClasses(picked.classList))
  /\ UNCHANGED <<workerVars, pickerVars, doc, hint, picked, exportFile, inbox, view, stored, last, validatorVars>>

InitPicker ==
  /\ InitIdle
  /\ page = {}
  /\ stored = EmptySchema
  /\ dom = [e \in Elems |-> Absent]
  /\ doc = EmptyDoc
  /\ hint = ""
  /\ answer = NoAnswer
  /\ picked \in PickedElements

NextPicker ==
  \/ BuildSelector
  \/ FilterClasses

SpecPicker == InitPicker /\ [][NextPicker]_vars

\* ------------------------------------------------------------------------
\* Options page: export and import
\* ------------------------------------------------------------------------
\* exportRules: the page's domains state is written to a file
ExportRules ==
  /\ exportFile' = [saved |-> TRUE, domains |-> view]
  /\ last' = StoreStep("ExportRules", <<>>, <<>>, <<>>, TRUE)
  /\ UNCHANGED <<stored, view, inbox, validatorVars, serializerVars, workerVars, pickerVars>>

\* the UPDATE_RULE messages importRules sends for the rules of one domain,
\* from rule i on, each handled before the next is sent
RECURSIVE ImportDomainRules(_, _, _, _)
ImportDomainRules(schema, domain, rules, i) ==
  IF i > Len(rules) THEN schema
  ELSE ImportDomainRules(updateRule(schema, domain, rules[i].id, Serialize(rules[i])),
                         domain, rules, i + 1)

\* the loop of importRules over the entries of the parsed file
RECURSIVE ImportEntries(_, _, _)
ImportEntries(schema, imported, todo) ==
  IF todo = {} THEN schema
  ELSE LET domain == CHOOSE d \in todo : TRUE
       IN ImportEntries(ImportDomainRules(schema, domain, imported[domain], 1),
                        imported, todo \ {domain})

\* importRules with the file exported last, then loadData
ImportRules ==
  /\ exportFile.saved
  /\ stored' = ImportEntries(stored, exportFile.domains, DOMAIN exportFile.domains)
  /\ view' = stored'.domains
  /\ last' = StoreStep("ImportRules", <<>>, <<>>, <<>>, TRUE)
  /\ UNCHANGED <<exportFile, inbox, validatorVars, serializerVars, workerVars, pickerVars>>

\* a store of two rules, seen through the options page
InitImport ==
  /\ InitCommon
  /\ page = {}
  /\ stored \in {SchemaOf(<<RuleFoo>>), SchemaOf(<<RuleFoo, RuleAds>>)}
  /\ dom = [e \in Elems |-> Absent]

\* rules are exported, toggled, deleted and imported again
NextImport ==
  \/ OptionsLoad
  \/ ToggleRule
  \/ OptionsDelete
  \/ ExportRules
  \/ ImportRules

SpecImport == InitImport /\ [][NextImport]_vars

\* a page with the element #foo, hidden by the rule's CSS, on the domain
\* that holds the rule rFoo
InitLive ==
  /\ InitCommon
  /\ page = {"e1"}
  /\ stored = SchemaOf(<<RuleFoo>>)
  /\ dom = [e \in Elems |->
              IF e \in page
              THEN [present |-> TRUE, display |-> "none", visibility |-> "visible"]
              ELSE Absent]

\* the validator runs on the page while the options page changes the rule
NextLive ==
  \/ DOMContentLoaded
  \/ StartCall
  \/ StartResume
  \/ Stop
  \/ RemoveElement
  \/ ObserverCallback
  \/ Advance
  \/ InitialFire
  \/ IntervalFire
  \/ DebounceFire
  \/ OptionsLoad
  \/ ToggleRule
  \/ OptionsDelete
  \/ RegenerateRule

SpecLive == InitLive /\ [][NextLive]_vars

\* ------------------------------------------------------------------------
\* A page that stays open: the passes' reports reach the service worker
\* ------------------------------------------------------------------------
\* chrome.runtime.sendMessage of validateAll, the message being delivered
Delivered(msgs) ==
  {[domain |-> msgs[i].domain, failedRuleIds |-> msgs[i].failedRuleIds,
    resetSince |-> {}] : i \in 1..Len(msgs)}

\* one validation pass whose report, if any, is delivered
RunPassDelivered(act, v) ==
  LET r == validateAll(dom, v.ruleSelectors, v.lastValidation)
  IN /\ SetV([v EXCEPT !.lastValidation = r.lastValidation])
     /\ last' = PassOf(act, r, IF r.msgs = <<>> THEN "none" ELSE "delivered")
     /\ inbox' = inbox \cup Delivered(r.msgs)

\* the initial validation's timer fires
InitialDelivered ==
  /\ \E t \in timers :
       /\ t.kind = "initial" /\ t.rem = 0
       /\ RunPassDelivered("InitialFire", [V EXCEPT !.timers = timers \ {t}])
  /\ UNCHANGED <<workerVars, pickerVars, serializerVars, exportFile, view, page, stored, readyState,
                 phase, dclListener, dom, sinceCb, burstPasses, burstCallbacks,
                 stopped, everRejected>>

\* the periodic validation's timer fires
IntervalDelivered ==
  /\ \E t \in timers :
       /\ t.kind = "interval" /\ t.rem = 0
       /\ RunPassDelivered("IntervalFire",
                           [V EXCEPT !.timers = (timers \ {t}) \cup
                              {[t EXCEPT !.rem = VALIDATION_INTERVAL_MS]}])
  /\ UNCHANGED <<workerVars, pickerVars, serializerVars, exportFile, view, page, stored, readyState,
                 phase, dclListener, dom, sinceCb, burstPasses, burstCallbacks,
                 stopped, everRejected>>

\* time passes until the next timer is due; the service worker needs less
\* than that for a report
AdvanceHandled ==
  /\ inbox = {}
  /\ Advance

\* a page on which no element is hidden, on a domain with one rule
InitBreak ==
  /\ InitCommon
  /\ page = {"e1", "e2"}
  /\ stored \in {SchemaOf(<<rule>>) : rule \in RuleCatalog}
  /\ dom \in {d \in [Elems -> ElemStates] :
                \A e \in Elems :
                  /\ d[e].present => e \in page
                  /\ d[e].display = "block" /\ d[e].visibility = "visible"}

NextBreak ==
  \/ DOMContentLoaded
  \/ StartCall
  \/ StartResume
  \/ AdvanceHandled
  \/ InitialDelivered
  \/ IntervalDelivered
  \/ ReceiveFailureReport

\* the browser loads the page, settles the rule request, runs every due
\* timer callback and delivers every message
SpecBreak == InitBreak /\ [][NextBreak]_vars /\ WF_vars(NextBreak)

\* ------------------------------------------------------------------------
\* Two failure reports handled at the same time
\* ------------------------------------------------------------------------
\* chrome.runtime.onMessage starts handleMessage for every message without
\* waiting for the previous one; a handler gives way at each await. The
\* storage call an await waits for takes effect when it resolves.

\* the for loop of handleValidationFailure reaches position i
ForLoop(h, i) ==
  IF i > Len(h.failedRuleIds) THEN IdleHandler
  ELSE [h EXCEPT !.pc = "getRule", !.i = i, !.rule = NoRule,
                 !.updates = IdleHandler.updates, !.schema = EmptySchema]

\* a tab's report arrives: handleValidationFailure runs up to
\* `await getSettings()`
ReportArrives(t) ==
  /\ handlers[t].pc = "idle"
  /\ \E failedRuleIds \in ReportLists :
       /\ \A i \in 1..Len(failedRuleIds) :
            handled[failedRuleIds[i]] < MaxFailures
       /\ handlers' = [handlers EXCEPT ![t] =
                         [IdleHandler EXCEPT !.pc = "getSettings",
                                             !.domain = PageDomain,
                                             !.failedRuleIds = failedRuleIds]]
       /\ last' = StoreStep("ReportArrives", PageDomain, failedRuleIds, <<>>, TRUE)
  /\ UNCHANGED <<stored, notifications, handled>>

\* getSettings() resolves; the loop starts with `await getRule(...)`
SettingsResolve(t) ==
  LET h == handlers[t]
  IN /\ h.pc = "getSettings"
     /\ handlers' = [handlers EXCEPT ![t] =
                       ForLoop([h EXCEPT !.settings = stored.settings], 1)]
     /\ last' = StoreStep("SettingsResolve", h.domain, h.failedRuleIds, <<>>, TRUE)
     /\ UNCHANGED <<stored, notifications, handled>>

\* getRule() resolves: `continue` for a missing rule, else the new count
\* and status are computed and updateRule() awaits getSchema()
RuleResolves(t) ==
  LET h == handlers[t]
      rule == getRule(stored, h.domain, h.failedRuleIds[h.i])
  IN /\ h.pc = "getRule"
     /\ handlers' = [handlers EXCEPT ![t] =
                       IF rule = NoRule THEN ForLoop(h, h.i + 1)
                       ELSE [h EXCEPT !.pc = "getSchema", !.rule = rule,
                                      !.updates = FailureUpdates(rule)]]
     /\ last' = StoreStep("RuleResolves", h.domain, h.failedRuleIds, <<>>, TRUE)
     /\ UNCHANGED <<stored, notifications, handled>>

\* the statements after `await updateRule(...)`: the notification, then the
\* next rule id
AfterUpdate(t, act) ==
  LET h == handlers[t]
      ruleId == h.failedRuleIds[h.i]
      notify == ShouldNotify(h.settings, h.updates.status, h.rule)
  IN /\ notifications' = IF notify THEN [notifications EXCEPT ![ruleId] = @ + 1]
                         ELSE notifications
     /\ handled' = [handled EXCEPT ![ruleId] = @ + 1]
     /\ handlers' = [handlers EXCEPT ![t] = ForLoop(h, h.i + 1)]
     /\ last' = StoreStep(act, h.domain, h.failedRuleIds,
                          IF notify THEN <<ruleId>> ELSE <<>>, TRUE)

\* getSchema() of updateRule resolves: the rule is merged into the schema
\* just read and saveSchema() is awaited; nothing is saved for a rule that
\* is gone
SchemaResolves(t) ==
  LET h == handlers[t]
      ruleId == h.failedRuleIds[h.i]
  IN /\ h.pc = "getSchema"
     /\ IF getRule(stored, h.domain, ruleId) = NoRule
        THEN AfterUpdate(t, "SchemaResolves")
        ELSE /\ handlers' = [handlers EXCEPT ![t] =
                               [h EXCEPT !.pc = "saveSchema",
                                         !.schema = updateRule(stored, h.domain,
                                                               ruleId, h.updates)]]
             /\ last' = StoreStep("SchemaResolves", h.domain, h.failedRuleIds,
                                  <<>>, TRUE)
             /\ UNCHANGED <<notifications, handled>>
     /\ UNCHANGED stored

\* saveSchema() resolves: the whole schema the handler holds is written
SaveResolves(t) ==
  LET h == handlers[t]
  IN /\ h.pc = "saveSchema"
     /\ stored' = h.schema
     /\ AfterUpdate(t, "SaveResolves")

\* a report arrives from a tab whose previous one has been handled
ReportArrival ==
  /\ \E t \in TabIds : ReportArrives(t)
  /\ UNCHANGED <<inbox, view, exportFile, validatorVars, serializerVars, pickerVars>>

\* a storage read of the settings resolves
SettingsResolved ==
  /\ \E t \in TabIds : SettingsResolve(t)
  /\ UNCHANGED <<inbox, view, exportFile, validatorVars, serializerVars, pickerVars>>

\* a storage read of a rule resolves
RuleResolved ==
  /\ \E t \in TabIds : RuleResolves(t)
  /\ UNCHANGED <<inbox, view, exportFile, validatorVars, serializerVars, pickerVars>>

\* a storage read of the schema resolves
SchemaResolved ==
  /\ \E t \in TabIds : SchemaResolves(t)
  /\ UNCHANGED <<inbox, view, exportFile, validatorVars, serializerVars, pickerVars>>

\* a storage write resolves
SaveResolved ==
  /\ \E t \in TabIds : SaveResolves(t)
  /\ UNCHANGED <<inbox, view, exportFile, validatorVars, serializerVars, pickerVars>>

\* the rules rFoo and rAds have been created for the page's domain
InitWorkers ==
  /\ InitCommon
  /\ page = {}
  /\ stored = SchemaOf(<<RuleFoo, RuleAds>>)
  /\ dom = [e \in Elems |-> Absent]

NextWorkers ==
  \/ ReportArrival
  \/ SettingsResolved
  \/ RuleResolved
  \/ SchemaResolved
  \/ SaveResolved

SpecWorkers == InitWorkers /\ [][NextWorkers]_vars

\* ------------------------------------------------------------------------
\* A store written by an earlier version
\* ------------------------------------------------------------------------
\* a rule persisted with the status 'warning' the earlier version had
RuleWarned == [RuleAds EXCEPT !.status = "warning", !.failureCount = 1]

\* the rules of a schema, 'warning' turned into 'active'
WarningsCleared(schema) ==
  [schema EXCEPT !.domains =
     [d \in DOMAIN schema.domains |->
        [i \in 1..Len(schema.domains[d]) |->
           IF schema.domains[d][i].status = "warning"
           THEN [schema.domains[d][i] EXCEPT !.status = "active"]
           ELSE schema.domains[d][i]]]]

\* migrateWarningStatus: the schema storage holds afterwards, and whether
\* saveSchema was called
migrateWarningStatus(schema) ==
  LET modified == \E d \in DOMAIN schema.domains :
                    \E i \in 1..Len(schema.domains[d]) :
                      schema.domains[d][i].status = "warning"
  IN [schema |-> IF modified THEN WarningsCleared(schema) ELSE schema,
      saved |-> modified]

\* the domain holds rules of this and of the earlier version
InitLoad ==
  /\ InitCommon
  /\ page = {}
  /\ stored \in {SchemaOf(<<RuleWarned>>), SchemaOf(<<RuleFoo, RuleWarned>>),
                 SchemaOf(<<RuleFoo>>)}
  /\ dom = [e \in Elems |-> Absent]

\* the extension's pages are opened and used; no page reports a failure
NextLoad ==
  \/ OptionsLoad
  \/ ToggleRule
  \/ OptionsDelete
  \/ PopupDelete
  \/ SaveChatMessages
  \/ SaveSettings

SpecLoad == InitLoad /\ [][NextLoad]_vars

\* ------------------------------------------------------------------------
\* The CSS a page is given
\* ------------------------------------------------------------------------
\* a rule three failure reports have been handled for
RuleBroken == [RuleBad EXCEPT !.status = "broken", !.failureCount = 3]

InjectCatalog == {RuleFoo, RuleOff, RuleMuted, RuleShelved, RuleWarned, RuleBroken}

\* getCSSForDomain: css is the list of blocks that join('\n\n') strings
\* together in this order
getCSSForDomain(schema, domain) ==
  LET rules == getRulesForDomain(schema, domain)
      enabledRules == SelectSeq(rules, LAMBDA r : r.enabled /\ r.status # "disabled")
  IN [css |-> [i \in 1..Len(enabledRules) |-> enabledRules[i].generatedCSS],
      ruleIds |-> [i \in 1..Len(enabledRules) |-> enabledRules[i].id]]

\* GET_CSS_FOR_DOMAIN is handled, or notifyTabsOfUpdate builds INJECT_CSS
GetCSSForDomain ==
  /\ answer = NoAnswer
  /\ \E domain \in Domains :
       /\ answer' = Called("getCSSForDomain", getCSSForDomain(stored, domain))
       /\ last' = StoreStep("GetCSSForDomain", domain, <<>>, <<>>, TRUE)
  /\ UNCHANGED <<workerVars, pickerVars, doc, hint, picked, exportFile, inbox, view, stored,
                 validatorVars>>

\* the page's domain holds any list of rules of any status
InitInject ==
  /\ InitCommon
  /\ page = {}
  /\ stored \in {SchemaOf(rs) :
                   rs \in {l \in UNION {[1..n -> InjectCatalog] : n \in 0..MaxRules} :
                             \A i, j \in 1..Len(l) : i # j => l[i].id # l[j].id}}
  /\ dom = [e \in Elems |-> Absent]

NextInject == GetCSSForDomain

SpecInject == InitInject /\ [][NextInject]_vars

\* ------------------------------------------------------------------------
\* A picking session on a page
\* ------------------------------------------------------------------------
\* the elements of the page the pointer can be over
PickTargets == {e \in PickedElements : e.attributes = <<>>}

\* the history of an event starts afresh
Fresh(p, act) == [p EXCEPT !.act = act, !.selected = <<>>, !.cancelled = 0]

\* START_ELEMENT_PICKER
StartPicker ==
  /\ picker' = ElementPickerStart(Fresh(picker, "start"), SaveSelected, SendCancelled)
  /\ UNCHANGED <<workerVars, serializerVars, exportFile, inbox, view, stored,
                 last, validatorVars>>

\* STOP_ELEMENT_PICKER
StopPicker ==
  /\ picker' = ElementPickerStop(Fresh(picker, "stop"))
  /\ UNCHANGED <<workerVars, serializerVars, exportFile, inbox, view, stored,
                 last, validatorVars>>

\* the pointer moves; the document dispatches to the listener, if attached
MouseMove ==
  /\ \E target \in PickTargets \cup {OwnUI, BodyTarget} :
       picker' = IF picker.listeners
                 THEN handleMouseMove(Fresh(picker, "mousemove"), target)
                 ELSE Fresh(picker, "mousemove")
  /\ UNCHANGED <<workerVars, serializerVars, exportFile, inbox, view, stored,
                 last, validatorVars>>

Click ==
  /\ picker' = IF picker.listeners THEN handleClick(Fresh(picker, "click"))
                ELSE Fresh(picker, "click")
  /\ UNCHANGED <<workerVars, serializerVars, exportFile, inbox, view, stored,
                 last, validatorVars>>

KeyDown ==
  /\ \E key \in {"Escape", "a"} :
       picker' = IF picker.listeners
                 THEN handleKeyDown(Fresh(picker, "keydown:" \o key), key)
                 ELSE Fresh(picker, "keydown:" \o key)
  /\ UNCHANGED <<workerVars, serializerVars, exportFile, inbox, view, stored,
                 last, validatorVars>>

InitSession ==
  /\ InitCommon
  /\ page = {}
  /\ stored = EmptySchema
  /\ dom = [e \in Elems |-> Absent]

NextSession ==
  \/ StartPicker
  \/ StopPicker
  \/ MouseMove
  \/ Click
  \/ KeyDown

SpecSession == InitSession /\ [][NextSession]_vars

\* ------------------------------------------------------------------------
\* Properties
\* ------------------------------------------------------------------------
Occurrences(f, x) == Cardinality({i \in DOMAIN f : f[i] = x})

Hidden(e) == dom[e].display = "none" \/ dom[e].visibility = "hidden"

\* m and h of a well-formed selector on the current document
MatchCount(selector) == Cardinality(querySelectorAll(dom, selector))
HiddenCount(selector) ==
  Cardinality({e \in querySelectorAll(dom, selector) : Hidden(e)})

Tracks(rule) ==
  \E i \in 1..Len(ruleSelectors) :
    ruleSelectors[i] = [id |-> rule.id, selectors |-> rule.selectors]

\* C4: every result a validation pass computes for a well-formed selector
\* carries the selector's match count m and hidden count h on the document,
\* and its status is invalid for m = 0, valid for h = m > 0, partial for
\* 0 < h < m, and invalid for m > 0 and h = 0.
C4_Classification ==
  last.pass =>
    \A r \in last.results :
      ~QueryThrows(r.selector) =>
        LET m == MatchCount(r.selector)
            h == HiddenCount(r.selector)
        IN /\ r.matchCount = m
           /\ r.hiddenCount = h
           /\ (m = 0 => r.status = "invalid")
           /\ (m > 0 /\ h = m => r.status = "valid")
           /\ (0 < h /\ h < m => r.status = "partial")
           /\ (m > 0 /\ h = 0 => r.status = "invalid")

\* a pass that saw a partially hidden selector, one element hidden only
\* through visibility
C4_Witness ==
  /\ last.pass
  /\ \E r \in last.results :
       r.selector = SelAd /\ r.status = "partial" /\ r.matchCount = 3
         /\ r.hiddenCount = 2
  /\ \E e \in Elems : dom[e].display = "block" /\ dom[e].visibility = "hidden"

\* C5: in a validation pass a rule is valid iff one of its selectors was
\* classified valid (partial does not count), and a valid rule is not among
\* the failures; the rule with a selector matching 3 hidden elements and a
\* selector matching nothing is valid and not reported.
C5_AnySelectorValid ==
  last.pass =>
    /\ \A i \in 1..Len(ruleSelectors) :
         LET id == ruleSelectors[i].id
         IN /\ id \in last.validRules <=>
                 \E r \in last.results : r.ruleId = id /\ r.status = "valid"
            /\ id \in last.validRules => id \notin Range(last.failures)
    /\ \A r \in last.results :
         r.status = "valid" <=>
           (~QueryThrows(r.selector) /\ MatchCount(r.selector) > 0
              /\ HiddenCount(r.selector) = MatchCount(r.selector))
    /\ (Tracks(RuleAds) /\ HiddenCount(SelAd) = 3 /\ MatchCount(SelGone) = 0) =>
         /\ "rAds" \in last.validRules
         /\ "rAds" \notin Range(last.failures)

\* the pass of the scenario: 3 hidden matches for one selector, none for the
\* other
C5_Witness ==
  /\ last.pass
  /\ Tracks(RuleAds)
  /\ HiddenCount(SelAd) = 3
  /\ MatchCount(SelGone) = 0
  /\ "rAds" \in last.validRules

\* C6: every tracked rule with no valid selector in a pass is in that pass's
\* failure set, whatever its selector list and whichever pass it is.
C6_EveryBrokenRuleReported ==
  last.pass =>
    \A i \in 1..Len(ruleSelectors) :
      ruleSelectors[i].id \notin last.validRules =>
        /\ ruleSelectors[i].id \in Range(last.failures)
        /\ Len(last.msgs) = 1
        /\ ruleSelectors[i].id \in Range(last.msgs[1].failedRuleIds)

\* C7: a validation pass sends at most one RULE_VALIDATION_FAILURE message,
\* sends it iff its failure set is not empty, and the message lists each
\* rule of the failure set exactly once, with the page's domain and url.
C7_OneReportPerPass ==
  last.pass =>
    /\ Len(last.msgs) <= 1
    /\ Len(last.msgs) = 1 <=> Len(last.failures) > 0
    /\ \A k \in 1..Len(last.msgs) :
         /\ last.msgs[k].type = "RULE_VALIDATION_FAILURE"
         /\ last.msgs[k].domain = <<"example", "com">>
         /\ last.msgs[k].url = PageUrl
         /\ Range(last.msgs[k].failedRuleIds) = Range(last.failures)
         /\ \A id \in Range(last.failures) :
              Occurrences(last.msgs[k].failedRuleIds, id) = 1

\* a pass in which two rules failed and one message went out
C7_Witness ==
  /\ last.pass
  /\ Len(last.failures) = 2
  /\ Len(last.msgs) = 1
  /\ Len(last.msgs[1].failedRuleIds) = 2

\* C9: a selector that is not valid CSS is classified invalid with zero
\* matches, and the pass goes on: every selector of every tracked rule gets
\* its result in the pass, and a rule that also has a valid selector is valid.
C9_SyntaxErrorContained ==
  last.pass =>
    /\ \A r \in last.results :
         QueryThrows(r.selector) =>
           r.status = "invalid" /\ r.matchCount = 0 /\ r.hiddenCount = 0
    /\ \A i \in 1..Len(ruleSelectors) :
         \A j \in 1..Len(ruleSelectors[i].selectors) :
           /\ \E r \in last.results :
                /\ r.ruleId = ruleSelectors[i].id
                /\ r.selector = ruleSelectors[i].selectors[j]
           /\ ValidationKey(ruleSelectors[i].id, ruleSelectors[i].selectors[j])
                \in DOMAIN lastValidation
    /\ (Tracks(RuleBad) /\ MatchCount(SelFoo) = 1 /\ HiddenCount(SelFoo) = 1) =>
         "rBad" \in last.validRules

\* a pass over the rule with the malformed selector first, with its second
\* selector valid, followed by another rule that was validated too
C9_Witness ==
  /\ last.pass
  /\ Len(ruleSelectors) = 2
  /\ ruleSelectors[1].id = "rBad"
  /\ "rBad" \in last.validRules
  /\ \E r \in last.results : r.selector = SelBad /\ r.status = "invalid"
  /\ \E r \in last.results : r.ruleId = ruleSelectors[2].id

\* C1: within a burst of observer callbacks (each less than
\* VALIDATION_DEBOUNCE_MS after the one before) no mutation-driven pass runs;
\* the burst's pass runs VALIDATION_DEBOUNCE_MS after its last callback, and
\* once that time has passed on a validator that was not stopped the burst
\* has had exactly one pass, however many callbacks it had.
C1_DebounceOnePass ==
  /\ (sinceCb >= 0 /\ sinceCb < VALIDATION_DEBOUNCE_MS) => burstPasses = 0
  /\ burstPasses <= 1
  /\ (last.act = "DebounceFire" /\ last.pass) =>
       (sinceCb = VALIDATION_DEBOUNCE_MS /\ burstPasses = 1)
  /\ (observer = "connected" /\ sinceCb > VALIDATION_DEBOUNCE_MS) =>
       burstPasses = 1

\* the single pass of a burst of several callbacks has just run
C1_Witness ==
  /\ last.act = "DebounceFire"
  /\ last.pass
  /\ burstCallbacks >= 2
  /\ burstPasses = 1

\* C2: after stop() has returned on a started validator no validation pass
\* runs and no failure report is sent.
C2_NoPassAfterStop ==
  stopped => (~last.pass /\ last.msgs = <<>>)

\* C3: with the rule of selectors <<#foo>> tracked, a pass that finds #foo
\* matching one hidden element classifies the rule valid and does not report
\* it; a pass that finds #foo gone classifies the selector invalid and sends
\* a report that names the rule exactly once; and a burst of mutations leads
\* to one such pass only.
C3_FooRoundTrip ==
  (last.pass /\ Tracks(RuleFoo)) =>
    /\ (MatchCount(SelFoo) = 1 /\ HiddenCount(SelFoo) = 1) =>
         /\ "rFoo" \in last.validRules
         /\ \A k \in 1..Len(last.msgs) :
              "rFoo" \notin Range(last.msgs[k].failedRuleIds)
    /\ MatchCount(SelFoo) = 0 =>
         /\ \E r \in last.results :
              r.ruleId = "rFoo" /\ r.selector = SelFoo /\ r.status = "invalid"
         /\ Len(last.msgs) = 1
         /\ Occurrences(last.msgs[1].failedRuleIds, "rFoo") = 1
    /\ last.act = "DebounceFire" => burstPasses = 1

\* #foo was valid at the pass before, was removed in a burst of several
\* mutation callbacks, and the debounced pass has just reported the rule
C3_Witness ==
  /\ last.act = "DebounceFire"
  /\ last.pass
  /\ Tracks(RuleFoo)
  /\ MatchCount(SelFoo) = 0
  /\ ValidationKey("rFoo", SelFoo) \in last.logged
  /\ burstCallbacks >= 2
  /\ Len(last.msgs) = 1
  /\ Occurrences(last.msgs[1].failedRuleIds, "rFoo") = 1

Watching ==
  /\ observer = "connected"
  /\ \E t \in timers : t.id = validationInterval /\ t.kind = "interval"
  /\ Len(ruleSelectors) > 0

\* C8: a rejected send changes nothing: the pass it belongs to leaves the
\* tracked map, the observer and the timer handles as they were and arms no
\* timer (no retry), the validator keeps watching afterwards, and a later
\* pass that finds the rule still failing sends its report again.
C8_RejectedSendIgnored ==
  /\ []((everRejected /\ ~stopped) => Watching)
  /\ []((last.pass /\ everRejected /\ Tracks(RuleFoo)
           /\ ~(MatchCount(SelFoo) = 1 /\ HiddenCount(SelFoo) = 1)) =>
          (Len(last.msgs) = 1 /\ "rFoo" \in Range(last.msgs[1].failedRuleIds)))
  /\ [][(last'.pass /\ last'.outcome = "rejected") =>
          /\ observer' = observer
          /\ validationInterval' = validationInterval
          /\ debounceTimer' = debounceTimer
          /\ ruleSelectors' = ruleSelectors
          /\ records' = records
          /\ TimerIds(timers') \subseteq TimerIds(timers)
          /\ Len(last'.msgs) = 1]_vars

\* a periodic pass, after an earlier report was rejected, has reported the
\* rule again
C8_Witness ==
  /\ last.act = "IntervalFire"
  /\ last.pass
  /\ last.outcome = "delivered"
  /\ everRejected
  /\ ~stopped
  /\ Len(last.msgs) = 1
  /\ "rFoo" \in Range(last.msgs[1].failedRuleIds)

\* C10: stop() leaves the observer, interval and debounce handles null with
\* nothing of the validator pending, a second stop() right after changes
\* nothing, and in every state (never started and idle ones included)
\* stopping twice gives the state that stopping once gives.
C10_StopIdempotent ==
  /\ [](stop(stop(V)) = stop(V))
  /\ [](last.act \in {"Stop", "StopAgain"} =>
          /\ observer = "null" /\ validationInterval = 0 /\ debounceTimer = 0
          /\ records = {}
          /\ \A t \in timers : t.kind \notin {"interval", "debounce"})
  /\ [][last'.act = "StopAgain" => V' = V]_vars

\* stop() called twice in a row on a validator that had been watching
C10_Witness ==
  /\ last.act = "StopAgain"
  /\ stopped
  /\ Tracks(RuleFoo)
  /\ observer = "null"

\* the rules the rule source holds for the page's domain
PageRules == getRulesForDomain(stored, PageDomain)

\* no rule of the page's domain is enabled and not disabled
NoneTrackable ==
  \A i \in 1..Len(PageRules) :
    ~(PageRules[i].enabled /\ PageRules[i].status # "disabled")

\* C11: when the rule source holds no rule for the domain that is enabled
\* and not disabled (or start() got no rule to track at all), the validator
\* stays idle: no observer, no interval, no initial-validation timer or
\* listener, nothing tracked, and no step is a validation pass or sends a
\* failure report.
C11_IdleWithoutTrackedRule ==
  (NoneTrackable \/ (phase = "done" /\ Len(ruleSelectors) = 0)) =>
    /\ observer = "null"
    /\ validationInterval = 0
    /\ debounceTimer = 0
    /\ timers = {}
    /\ ~dclListener
    /\ Len(ruleSelectors) = 0
    /\ ~last.pass
    /\ last.msgs = <<>>

\* start() has completed on a domain whose two rules are both switched off,
\* and time has passed since
C11_Witness ==
  /\ phase = "done"
  /\ Len(PageRules) = 2
  /\ NoneTrackable
  /\ last.act = "Tick"

IntervalTimers == {t \in timers : t.kind = "interval"}

IntervalDue == \E t \in IntervalTimers : t.rem = 0

\* C12: from the completion of start() with a tracked rule until stop(),
\* exactly one interval timer is armed, held by validationInterval and due
\* within VALIDATION_INTERVAL_MS; each time it is due its callback runs
\* (time does not pass and only stop() can pre-empt it), the callback is a
\* validation pass and leaves the timer armed a full interval ahead; page
\* mutations, observer callbacks and the other timer callbacks leave the
\* interval timer as it is.
C12_PeriodicPass ==
  /\ []((phase = "done" /\ Len(ruleSelectors) > 0 /\ ~stopped) =>
          /\ Cardinality(IntervalTimers) = 1
          /\ \A t \in IntervalTimers :
               /\ t.id = validationInterval
               /\ t.rem \in 0..VALIDATION_INTERVAL_MS)
  /\ [][last'.act = "IntervalFire" =>
          /\ IntervalDue
          /\ last'.pass
          /\ IntervalTimers' =
               {[t EXCEPT !.rem = VALIDATION_INTERVAL_MS] : t \in IntervalTimers}]_vars
  /\ [][(IntervalDue /\ ~stopped') =>
          (last'.act = "IntervalFire" \/ IntervalTimers' = IntervalTimers)]_vars
  /\ [][last'.act \in {"RemoveElement", "InsertElement", "SetStyle",
                       "ObserverCallback", "DebounceFire", "InitialFire"} =>
          IntervalTimers' = IntervalTimers]_vars

\* a tick of the interval has run a pass on a page that never mutated
C12_Witness ==
  /\ last.act = "IntervalFire"
  /\ last.pass
  /\ sinceCb = -1
  /\ ~stopped
  /\ \E t \in IntervalTimers : t.rem = VALIDATION_INTERVAL_MS

DebounceTimers == {t \in timers : t.kind = "debounce"}

\* C13 as stated: a tick of the interval that falls inside a pending
\* debounce window runs no validation pass of its own.
C13_TickCoalesced ==
  (last.act = "IntervalFire" /\ DebounceTimers # {}) => ~last.pass

\* C13 amended: only observer callbacks go through the debounce timer.  A
\* callback runs no pass; it leaves exactly one debounce timer, a full
\* window ahead.  A tick of the interval runs its own pass at once, also
\* inside a pending debounce window, and leaves the debounce timer and its
\* handle untouched, so the debounced pass follows.  Passes are run by timer
\* callbacks only, each within one step, and at most one debounce timer is
\* pending at any time.
C13_OnlyCallbacksDebounced ==
  /\ [](Cardinality(DebounceTimers) <= 1)
  /\ [](last.pass => last.act \in {"InitialFire", "IntervalFire", "DebounceFire"})
  /\ [][last'.act = "ObserverCallback" =>
          /\ ~last'.pass
          /\ Cardinality(DebounceTimers') = 1
          /\ \A t \in DebounceTimers' :
               t.id = debounceTimer' /\ t.rem = VALIDATION_DEBOUNCE_MS]_vars
  /\ [][last'.act = "IntervalFire" =>
          /\ last'.pass
          /\ DebounceTimers' = DebounceTimers
          /\ debounceTimer' = debounceTimer]_vars

\* a tick of the interval has run a pass while a debounce timer that will
\* run a pass of its own was still half a window from due
C13_Witness ==
  /\ last.act = "IntervalFire"
  /\ last.pass
  /\ \E t \in DebounceTimers :
       t.rem = TickMs /\ relevantChange(t.batch) /\ t.id = debounceTimer

\* ------------------------------------------------------------------------
\* Properties of the store
\* ------------------------------------------------------------------------
NoDuplicates(f) == \A i, j \in DOMAIN f : i # j => f[i] # f[j]

\* C15: a failure report creates a notification for a rule only if
\* notifyOnFailure is set, the rule is listed in the report, its stored
\* status was not broken before the report and is broken after it; no rule
\* is notified for twice by one report.
C15_NotifyOnlyOnBreak ==
  [][last'.act = "HandleFailure" =>
       /\ NoDuplicates(last'.notified)
       /\ \A k \in 1..Len(last'.notified) :
            LET ruleId == last'.notified[k]
                before == getRule(stored, last'.domain, ruleId)
                after == getRule(stored', last'.domain, ruleId)
            IN /\ stored.settings.notifyOnFailure
               /\ ruleId \in Range(last'.ruleIds)
               /\ before # NoRule
               /\ before.status # "broken"
               /\ after.status = "broken"]_vars

\* with notifications switched on, a report for the already broken rule
\* rFoo has been handled and has notified nobody
C15_Witness ==
  /\ last.act = "HandleFailure"
  /\ last.ruleIds = <<"rFoo">>
  /\ last.notified = <<>>
  /\ stored.settings.notifyOnFailure
  /\ getRule(stored, last.domain, "rFoo") # NoRule
  /\ getRule(stored, last.domain, "rFoo").status = "broken"
  /\ getRule(stored, last.domain, "rFoo").failureCount = BROKEN_THRESHOLD + 1

\* C16: a failure report leaves the domains, their rule lists' order and the
\* settings as they are; a rule of the report's domain whose id is listed
\* has its failureCount raised by exactly 1 and keeps every field but
\* failureCount and status; every other rule is unchanged.
C16_CountRaisedByOne ==
  [][last'.act = "HandleFailure" =>
       /\ DOMAIN stored'.domains = DOMAIN stored.domains
       /\ stored'.settings = stored.settings
       /\ \A d \in DOMAIN stored.domains :
            /\ Len(stored'.domains[d]) = Len(stored.domains[d])
            /\ \A i \in 1..Len(stored.domains[d]) :
                 LET before == stored.domains[d][i]
                     after == stored'.domains[d][i]
                 IN IF d = last'.domain /\ before.id \in Range(last'.ruleIds)
                    THEN /\ after.failureCount = before.failureCount + 1
                         /\ [after EXCEPT !.failureCount = 0, !.status = ""] =
                              [before EXCEPT !.failureCount = 0, !.status = ""]
                    ELSE after = before]_vars

\* a report listing rAds and rFoo has been handled for a domain that holds
\* only rFoo, while rAds is stored, untouched, under the other domain
C16_Witness ==
  /\ last.act = "HandleFailure"
  /\ last.ruleIds = <<"rAds", "rFoo">>
  /\ getRule(stored, last.domain, "rAds") = NoRule
  /\ getRule(stored, last.domain, "rFoo") # NoRule
  /\ getRule(stored, last.domain, "rFoo").failureCount = 1
  /\ \E d \in DOMAIN stored.domains :
       getRule(stored, d, "rAds") # NoRule /\ getRule(stored, d, "rAds").failureCount = 0

\* C17: after a failure report, a listed rule whose new failureCount is at
\* least BROKEN_THRESHOLD is broken, and one whose new failureCount is below
\* it is broken only if it was broken before the report.
C17_BrokenAtThreshold ==
  [][last'.act = "HandleFailure" =>
       \A k \in 1..Len(last'.ruleIds) :
         LET before == getRule(stored, last'.domain, last'.ruleIds[k])
             after == getRule(stored', last'.domain, last'.ruleIds[k])
         IN before # NoRule =>
              /\ after.failureCount >= BROKEN_THRESHOLD => after.status = "broken"
              /\ (after.failureCount < BROKEN_THRESHOLD /\ after.status = "broken") =>
                   before.status = "broken"]_vars

\* the third failure report has broken a rule that was disabled
C17_Witness ==
  /\ last.act = "HandleFailure"
  /\ last.ruleIds = <<"rFoo">>
  /\ getRule(stored, last.domain, "rFoo") # NoRule
  /\ getRule(stored, last.domain, "rFoo").failureCount = BROKEN_THRESHOLD
  /\ getRule(stored, last.domain, "rFoo").status = "broken"
  /\ ~getRule(stored, last.domain, "rFoo").enabled

\* C18: every persisted rule's status is active, broken or disabled.
C18_StatusNeverWarning ==
  \A d \in DOMAIN stored.domains :
    \A i \in 1..Len(stored.domains[d]) :
      stored.domains[d][i].status \in {"active", "broken", "disabled"}

\* C19: a toggle that disables a stored rule leaves it disabled, with
\* previousStatus the status it had (or, if it was disabled already, the
\* previousStatus it had); a toggle that enables a disabled rule gives it
\* the status remembered in previousStatus.
C19_TogglePreservesStatus ==
  [][last'.act = "ToggleRule" =>
       LET before == getRule(stored, last'.domain, last'.ruleIds[1])
           after == getRule(stored', last'.domain, last'.ruleIds[1])
       IN before # NoRule =>
            IF ~last'.enabled
            THEN /\ after.status = "disabled"
                 /\ after.previousStatus =
                      IF before.status = "disabled"
                      THEN before.previousStatus ELSE before.status
            ELSE before.status = "disabled" =>
                   after.status = before.previousStatus]_vars

\* C20: no stored domain has an empty rule list; a DELETE_RULE leaves the
\* settings and every other domain as they are, keeps of its own domain
\* exactly the rules with another id, in their order, and drops the domain
\* when none is left.
C20_DeleteExact ==
  /\ [](\A d \in DOMAIN stored.domains : Len(stored.domains[d]) > 0)
  /\ [][last'.act = "PopupDelete" =>
          LET kept == SelectSeq(getRulesForDomain(stored, last'.domain),
                                LAMBDA r : r.id # last'.ruleIds[1])
          IN /\ stored'.settings = stored.settings
             /\ \A d \in Domains \ {last'.domain} :
                  /\ d \in DOMAIN stored'.domains <=> d \in DOMAIN stored.domains
                  /\ getRulesForDomain(stored', d) = getRulesForDomain(stored, d)
             /\ getRulesForDomain(stored', last'.domain) = kept
             /\ last'.domain \in DOMAIN stored'.domains <=> Len(kept) > 0]_vars

\* the only rule of a domain has been deleted and the domain went with it,
\* while the other domain still holds its rule
C20_Witness ==
  /\ last.act = "PopupDelete"
  /\ last.domain \notin DOMAIN stored.domains
  /\ StoredIds(stored) = RuleIds \ {last.ruleIds[1]}

\* the (rule id, selector) pairs the tracked map holds
TrackedPairs ==
  UNION {{<<ruleSelectors[i].id, ruleSelectors[i].selectors[k]>> :
            k \in 1..Len(ruleSelectors[i].selectors)} :
          i \in 1..Len(ruleSelectors)}

\* C14: only the step in which start() resumes writes the tracked map, and
\* it writes the enabled, not disabled rules the store holds at that moment;
\* every other step (a pass, an observer callback, a timer callback, stop(),
\* a change of the stored rules) leaves the map as it is, and every pass
\* validates exactly the tracked (rule, selector) pairs, whatever the store
\* holds by then.
C14_TrackedMapFrozen ==
  /\ [][last'.act # "StartResume" => ruleSelectors' = ruleSelectors]_vars
  /\ [][last'.act = "StartResume" =>
          ruleSelectors' \in {ruleSelectors, TrackedOf(PageRules)}]_vars
  /\ [](last.pass =>
          {<<r.ruleId, r.selector>> : r \in last.results} = TrackedPairs)

\* a periodic pass has validated rFoo with the selector loaded at start,
\* after the rule was regenerated with another selector and switched off
C14_Witness ==
  /\ last.act = "IntervalFire"
  /\ last.pass
  /\ TrackedPairs = {<<"rFoo", SelFoo>>}
  /\ getRule(stored, PageDomain, "rFoo") # NoRule
  /\ getRule(stored, PageDomain, "rFoo").selectors = RegeneratedSelectors
  /\ ~getRule(stored, PageDomain, "rFoo").enabled

\* C21: a step changes the failureCount of a stored rule only as follows:
\* it lowers it only if it is a regeneration, and then to 0; it raises it
\* only if it handles a failure report that was sent after the rule's last
\* regeneration; toggles and chat updates leave it as it is.
C21_FailureCountMonotonic ==
  [][\A d \in DOMAIN stored.domains \cap DOMAIN stored'.domains :
       \A ruleId \in RuleIds :
         LET before == getRule(stored, d, ruleId)
             after == getRule(stored', d, ruleId)
         IN (before # NoRule /\ after # NoRule) =>
              /\ after.failureCount < before.failureCount =>
                   (last'.act = "RegenerateRule" /\ after.failureCount = 0)
              /\ after.failureCount > before.failureCount =>
                   /\ last'.act = "ReceiveFailureReport"
                   /\ \A m \in inbox \ inbox' : ruleId \notin m.resetSince
              /\ last'.act \in {"ToggleRule", "SaveChatMessages"} =>
                   after.failureCount = before.failureCount]_vars

\* the rules of an exported file, each with its domain
ExportedRules ==
  UNION {{<<d, r>> : r \in Range(exportFile.domains[d])} :
           d \in DOMAIN exportFile.domains}

\* C30: importing the exported file into a store that holds none of the
\* exported rules leaves every exported rule stored under its domain with
\* the content the file has.
C30_ImportRestores ==
  [][(/\ last'.act = "ImportRules"
      /\ ExportedRules # {}
      /\ \A x \in ExportedRules : getRule(stored, x[1], x[2].id) = NoRule)
       => \A x \in ExportedRules : getRule(stored', x[1], x[2].id) = x[2]]_vars

\* the caps hold in a serialized node at the given level below the root,
\* and in every node below it
RECURSIVE WithinCaps(_, _, _, _)
WithinCaps(d, node, level, options) ==
  /\ level <= options.maxDepth
  /\ Len(node.children) <= options.maxChildren
  /\ Len(node.visited) <= options.maxChildren
  /\ \A i \in 1..Len(node.visited) : node.visited[i] = children(d, node.el)[i]
  /\ \A i \in 1..Len(node.children) :
       WithinCaps(d, node.children[i], level + 1, options)

\* C22: in the tree serializeNode returns, no node lies more than maxDepth
\* levels below the root, no node has more than maxChildren children, and
\* the children serializeNode was called on are among the first maxChildren
\* children of their element.
C22_DepthAndChildrenCapped ==
  (answer.fn = "serializeNode" /\ answer.result # NullNode) =>
    WithinCaps(doc, answer.result, 0, answer.options)

\* a root with more children than maxChildren was serialized, and a child
\* at the last level has a visible element below it that was left out
C22_Witness ==
  /\ answer.fn = "serializeNode"
  /\ answer.result # NullNode
  /\ answer.options.maxDepth = 1
  /\ answer.options.maxChildren >= 1
  /\ Len(children(doc, answer.el)) > answer.options.maxChildren
  /\ Len(answer.result.children) = answer.options.maxChildren
  /\ \E i \in 1..Len(answer.result.children) :
       LET child == answer.result.children[i]
       IN /\ Len(child.visited) > 0
          /\ isVisible(elementOf(doc, child.visited[1]))
          /\ Len(child.children) = 0

\* C24: the list findRelevantElements returns never holds an element
\* together with one of its descendants.
C24_NoDescendantOfMatch ==
  answer.fn = "findRelevantElements" =>
    \A i, j \in 1..Len(answer.result) :
      answer.result[i] \notin Ancestors(doc, answer.result[j])

\* an element that matches the request lies below a returned element, and
\* is not returned
C24_Witness ==
  /\ answer.fn = "findRelevantElements"
  /\ \E el \in Nodes(doc) :
       /\ IsCandidate(doc, el, expandKeywords(rawKeywords(hint)))
       /\ el \notin Range(answer.result)
       /\ \E a \in Range(answer.result) : a \in Ancestors(doc, el)

\* the elements that match "shorts" through a synonym only: class
\* reel-container, and no "shorts" in what is searched
SynonymOnly(d) ==
  {el \in Nodes(d) :
     /\ "reel-container" \in Range(elementOf(d, el).classList)
     /\ ~includes(SearchableText(d, el), "shorts")}

\* the expansion holds every token, and "reel" for the token "shorts"
ExpansionHoldsTokens ==
  answer.fn = "expandKeywords" =>
    /\ Range(rawKeywords(hint)) \subseteq answer.result
    /\ "shorts" \in Range(rawKeywords(hint)) => "reel" \in answer.result

\* C25: the expansion holds every token, and "reel" for "shorts";
\* an element that matches "shorts" through a synonym only is a candidate
\* and is in the list findRelevantElements returns.
C25_SynonymMatchReturned ==
  /\ ExpansionHoldsTokens
  /\ (answer.fn = "findRelevantElements" /\ "shorts" \in Range(rawKeywords(hint))) =>
       \A el \in SynonymOnly(doc) :
         /\ IsCandidate(doc, el, expandKeywords(rawKeywords(hint)))
         /\ el \in Range(answer.result)

\* no element of the document matches the request
NoMatch(d, hintText) ==
  \A el \in Nodes(d) : ~IsCandidate(d, el, expandKeywords(rawKeywords(hintText)))

\* the result carries the whole-page serialization, cut at maxLength
IsWholePage(d, result) ==
  /\ result.header \in {"Page structure", "Page structure (truncated)"}
  /\ result.tree = Min(serializeDOM(d), maxLength)
  /\ result.truncated <=> serializeDOM(d) > maxLength

\* C26: a request without a token longer than 2 characters matches no
\* element; when no element matches, serializeFocused returns the empty
\* string and serializeForLLM the whole-page serialization; serializeForLLM
\* returns the focused text if it is longer than 500 characters and the
\* whole-page serialization otherwise.
C26_FocusedOrWholePage ==
  /\ Len(rawKeywords(hint)) = 0 => NoMatch(doc, hint)
  /\ (answer.fn = "serializeFocused" /\ NoMatch(doc, hint)) => answer.result = 0
  /\ answer.fn = "serializeForLLM" =>
       /\ NoMatch(doc, hint) => IsWholePage(doc, answer.result)
       /\ IF serializeFocused(doc, hint) > FOCUSED_MIN_LENGTH
          THEN /\ answer.result.header = "Relevant sections"
               /\ answer.result.tree = serializeFocused(doc, hint)
          ELSE IsWholePage(doc, answer.result)

\* a request with keywords that match nothing on a page with elements got
\* the whole page
C26_Witness ==
  /\ answer.fn = "serializeForLLM"
  /\ Len(rawKeywords(hint)) > 0
  /\ Len(doc.parent) > 0
  /\ NoMatch(doc, hint)
  /\ answer.result.header = "Page structure"

\* C27: the serialized tree text serializeForLLM returns, without header
\* and truncation marker, is at most 8000 characters long, in the focused
\* and in the whole-page case.
C27_WithinBudget ==
  answer.fn = "serializeForLLM" => answer.result.tree <= maxLength

\* C28: serializeFocused emits at most 8 context blocks, and the context
\* root of an emitted block is neither the context root of another emitted
\* block nor an element below it.
C28_ContextRootsDisjoint ==
  answer.fn = "serializeFocused" =>
    /\ Len(answer.contexts) <= MAX_MATCHES
    /\ \A i, j \in 1..Len(answer.contexts) :
         i # j =>
           /\ answer.contexts[i].root # answer.contexts[j].root
           /\ answer.contexts[i].root \notin Ancestors(doc, answer.contexts[j].root)

\* C29: filterClasses drops a class name exactly if isGeneratedClass takes
\* it for a generated one.
C29_OneClassification ==
  answer.fn = "filterClasses" =>
    \A c \in Range(picked.classList) :
      c \notin Range(answer.result) <=> isGeneratedClass(c)

\* the cascade as a list: for each step in its order, whether it applies to
\* the element and the selector it gives
CascadeSteps(element) ==
  LET tag == toLowerCase(element.tagName)
      stable == StableDataAttrs(element)
      aria == getAttribute(element, "aria-label")
      role == getAttribute(element, "role")
      kept == SelectSeq(element.classList, LAMBDA c : ~isGeneratedClass(c))
      href == getAttribute(element, "href")
      path == splitChar(href, "?")[1]
      segments == splitChar(path, "/")
  IN <<[applies |-> element.id # "", selector |-> "#" \o element.id],
       [applies |-> Len(stable) > 0,
        selector |-> IF Len(stable) > 0
                     THEN "[" \o stable[1].name \o "=\"" \o stable[1].value \o "\"]"
                     ELSE ""],
       [applies |-> aria # "", selector |-> "[aria-label=\"" \o aria \o "\"]"],
       [applies |-> role # "", selector |-> tag \o "[role=\"" \o role \o "\"]"],
       [applies |-> Len(kept) > 0,
        selector |-> IF Len(kept) = 0 THEN ""
                     ELSE IF Len(kept) = 1 THEN tag \o "." \o kept[1]
                     ELSE tag \o "." \o kept[1] \o "." \o kept[2]],
       [applies |-> tag = "a" /\ href # "" /\ ~startsWith(href, "javascript:"),
        selector |-> IF Len(path) < 50 THEN "a[href=\"" \o path \o "\"]"
                     ELSE "a[href*=\"" \o segments[Len(segments) - 1] \o "/"
                            \o segments[Len(segments)] \o "\"]"],
       [applies |-> TRUE, selector |-> tag]>>

PeriodicSetUp ==
  /\ phase = "done"
  /\ validationInterval # 0

PersistedStatus(ruleId) ==
  LET rule == getRule(stored, PageDomain, ruleId)
  IN IF rule = NoRule THEN "none" ELSE rule.status

\* every rule of the given ids that the validator tracks is persisted as broken
TrackedBroken(ids) ==
  \A i \in 1..Len(ruleSelectors) :
    ruleSelectors[i].id \in ids => PersistedStatus(ruleSelectors[i].id) = "broken"

CatalogIds == {r.id : r \in RuleCatalog}

\* C31: a rule the validator tracks on a page that stays open, none of whose
\* selectors ever yields a valid result there, is eventually persisted as
\* broken, its reports being delivered and handled.
C31_EventuallyBroken == PeriodicSetUp ~> TrackedBroken(CatalogIds)

\* the same for the rules that have a selector to validate
WithSelectorEventuallyBroken == PeriodicSetUp ~> TrackedBroken(CatalogIds \ {"rEmpty"})

\* ------------------------------------------------------------------------
\* stop() during the await of start()
\* ------------------------------------------------------------------------
\* C32: when stop() was called while start() awaited the rule source, start()
\* resumes and completes without an observer, a periodic interval or a
\* pending timer, so that no validation pass can run.
C32_StopWhileAwaitingHolds ==
  [][(phase = "awaiting" /\ last.act \in {"Stop", "StopAgain"} /\ phase' = "done")
       => (observer' = "null" /\ validationInterval' = 0 /\ timers' = {}
           /\ ~dclListener')]_vars

\* ------------------------------------------------------------------------
\* Concurrent failure handlers
\* ------------------------------------------------------------------------
AllIdle == \A t \in TabIds : handlers[t].pc = "idle"

PersistedCount(ruleId) ==
  LET rule == getRule(stored, PageDomain, ruleId)
  IN IF rule = NoRule THEN 0 ELSE rule.failureCount

\* C33: reports naming the same rule being handled at the same time, the
\* rule's transition into broken creates exactly one notification.
C33_OneNotificationPerBreak ==
  \A ruleId \in RuleIds :
    /\ notifications[ruleId] <= 1
    /\ (AllIdle /\ PersistedStatus(ruleId) = "broken") => notifications[ruleId] = 1

\* C34: reports naming the same rule being handled at the same time, no
\* increment is lost: once the handlers have finished, the persisted
\* failureCount of a rule is the number of reports handled for it.
C34_NoLostIncrement ==
  AllIdle =>
    \A ruleId \in RuleIds :
      getRule(stored, PageDomain, ruleId) # NoRule
        => PersistedCount(ruleId) = handled[ruleId]

\* ------------------------------------------------------------------------
\* Reports about a rule switched off
\* ------------------------------------------------------------------------
\* C35: handling a failure report leaves the status of every rule that is
\* persisted as disabled at disabled.
C35_DisabledStaysDisabled ==
  [][last'.act = "HandleFailure"
       => \A d \in DOMAIN stored.domains :
            \A i \in 1..Len(stored.domains[d]) :
              stored.domains[d][i].status = "disabled"
                => getRule(stored', d, stored.domains[d][i].id).status = "disabled"]_vars

\* ------------------------------------------------------------------------
\* Matches left out of the list
\* ------------------------------------------------------------------------
\* C36: an element that matches the request and is missing from the list
\* findRelevantElements returns lies below an element of the list.
C36_RejectedOnlyBelowAccepted ==
  answer.fn = "findRelevantElements" =>
    \A el \in Nodes(doc) :
      (/\ IsCandidate(doc, el, expandKeywords(rawKeywords(hint)))
       /\ el \notin Range(answer.result))
        => \E a \in Range(answer.result) : a \in Ancestors(doc, el)

\* ------------------------------------------------------------------------
\* Context roots
\* ------------------------------------------------------------------------
\* the parent of the parent, or the parent when that one is the body
TwoLevelsUp(d, el) ==
  LET parent == parentElement(d, el)
  IN IF parent \in Nodes(d) /\ parentElement(d, parent) # Body
     THEN parentElement(d, parent)
     ELSE parent

\* C37: every context block serializeFocused emits is rooted in the body
\* subtree, never at <html>, at the grandparent of a match, or at its parent
\* when the grandparent is the body.
C37_ContextRootInsideBody ==
  answer.fn = "serializeFocused" =>
    \A i \in 1..Len(answer.contexts) :
      /\ answer.contexts[i].root \in Nodes(doc) \cup {Body}
      /\ \E el \in Range(findRelevantElements(doc, hint)) :
            answer.contexts[i].root = TwoLevelsUp(doc, el)

\* ------------------------------------------------------------------------
\* The status 'warning' of the earlier version
\* ------------------------------------------------------------------------
\* C38: the rules the options page holds after loading its data never
\* carry the status 'warning', the migration having run on load.
C38_NoWarningAfterLoad ==
  last.act = "OptionsLoad" =>
    \A d \in DOMAIN view :
      \A i \in 1..Len(view[d]) : view[d][i].status # "warning"

\* what migrateWarningStatus would do to the store: no rule is left with
\* 'warning', nothing else changes, it saves exactly if it changed a rule,
\* and a second run changes nothing
MigrationSound ==
  LET m == migrateWarningStatus(stored)
  IN /\ DOMAIN m.schema.domains = DOMAIN stored.domains
     /\ m.schema.settings = stored.settings
     /\ \A d \in DOMAIN stored.domains :
          /\ Len(m.schema.domains[d]) = Len(stored.domains[d])
          /\ \A i \in 1..Len(stored.domains[d]) :
               LET before == stored.domains[d][i]
                   after == m.schema.domains[d][i]
               IN /\ after.status # "warning"
                  /\ after = IF before.status = "warning"
                             THEN [before EXCEPT !.status = "active"] ELSE before
     /\ m.saved <=> m.schema # stored
     /\ migrateWarningStatus(m.schema) = [schema |-> m.schema, saved |-> FALSE]

\* ------------------------------------------------------------------------
\* Rules whose CSS is injected
\* ------------------------------------------------------------------------
\* C39: getCSSForDomain returns as many rule ids as CSS blocks, the i-th
\* block being the CSS of the i-th id's rule, and each of these rules is
\* enabled and active.
C39_OnlyEnabledActive ==
  answer.fn = "getCSSForDomain" =>
    /\ Len(answer.result.css) = Len(answer.result.ruleIds)
    /\ \A i \in 1..Len(answer.result.ruleIds) :
         LET rule == getRule(stored, last.domain, answer.result.ruleIds[i])
         IN /\ rule # NoRule
            /\ answer.result.css[i] = rule.generatedCSS
            /\ rule.enabled
            /\ rule.status = "active"

\* ------------------------------------------------------------------------
\* The end of a picking session
\* ------------------------------------------------------------------------
\* the picker is inactive and has left nothing behind
PickerGone(p) ==
  /\ ~p.isActive
  /\ p.overlay = "null" /\ p.tooltip = "null"
  /\ ~p.styleElement /\ ~p.listeners /\ ~p.bodyClass

\* the picker's own state, the history aside
PickerFields(p) ==
  [f \in DOMAIN p \ {"act", "selected", "cancelled"} |-> p[f]]

\* a click on a highlighted element ends the session with one call of the
\* select callback, for that element; start() on an active and stop() on
\* an inactive picker change nothing; Escape ends the session
PickerStepsExceptCancel ==
  /\ (picker.isActive /\ picker.currentElement # NoElement /\ picker'.act = "click")
       => /\ PickerGone(picker')
          /\ picker'.selected = <<extractElementInfo(picker.currentElement)>>
          /\ picker'.cancelled = 0
  /\ (picker.isActive /\ picker'.act = "keydown:Escape")
       => /\ PickerGone(picker')
          /\ picker'.selected = <<>>
  /\ (picker.isActive /\ picker'.act = "start")
       => /\ PickerFields(picker') = PickerFields(picker)
          /\ picker'.selected = <<>> /\ picker'.cancelled = 0
  /\ (~picker.isActive /\ picker'.act = "stop")
       => /\ PickerFields(picker') = PickerFields(picker)
          /\ picker'.selected = <<>> /\ picker'.cancelled = 0

PickerEndsExceptCancel == [][PickerStepsExceptCancel]_vars

\* C40: on an active picker, a click on a highlighted element stops it and
\* calls the select callback once with that element, Escape stops it and
\* calls the cancel callback once; afterwards the picker is inactive with
\* no overlay, tooltip or listener left; start() on an active and stop()
\* on an inactive picker do nothing.
C40_PickerEndsOnce ==
  [][/\ PickerStepsExceptCancel
     /\ (picker.isActive /\ picker'.act = "keydown:Escape")
          => picker'.cancelled = 1]_vars

====
